---- MODULE Spec2Model ----
(***************************************************************************)
(* Model of the pipe-invoice application: reference-table lookups          *)
(* (get_data.py), mass/length/price derivations (price_calculator.py),     *)
(* the add_item resolver of the form (invoice_visual.py) and the discount  *)
(* and surcharge arithmetic of the PDF generators (create_pdf.py).         *)
(*                                                                         *)
(* Numbers.  Python floats are modelled as exact rationals <<n, d>> in     *)
(* lowest terms with d > 0, so products, quotients and comparisons are the *)
(* ones of real arithmetic; binary rounding of IEEE doubles is not         *)
(* modelled.  Text typed in the form or stored in a CSV cell is a string;  *)
(* float(text) is the table FloatTable, and text outside the table does    *)
(* not parse (ValueError).                                                 *)
(***************************************************************************)
EXTENDS Integers, Sequences, FiniteSets, TLC

VARIABLES
    discount_csv,      \* "program files/discount.csv": [exists, rows]
    standard_entries,  \* text of the eight item-detail widgets
    standard_items,    \* InvoiceApp.standard_items
    standard_tree,     \* rows shown by InvoiceApp.standard_tree
    connection_items,  \* InvoiceApp.connection_items (fittings tab)
    include_discount_var, include_added_var, custom_discount_var,
    shown,             \* discount / added value / total shown on screen
    add_outcome,       \* what the last add_item call did (item or error box)
    pdf,               \* numbers of the last document produced by a generator
    standard_sort_dirs,\* InvoiceApp.standard_sort_dirs: column -> reverse next
    customer_entry,    \* text of the customer name widget
    invoice_entry,     \* text of the invoice number widget
    counter_file,      \* ~/.invoice_app_counter.json: [exists, counter]
    args,              \* arguments of the library calls (lookups, calculator)
    call               \* the last library call and what it returned or raised

vars == <<discount_csv, standard_entries, standard_items, standard_tree,
          connection_items,
          include_discount_var, include_added_var, custom_discount_var,
          shown, add_outcome, pdf,
          standard_sort_dirs, customer_entry, invoice_entry, counter_file,
          args, call>>

invoice_vars == <<customer_entry, invoice_entry, counter_file>>
library_vars == <<args, call>>

---------------------------------------------------------------------------
(* Rational arithmetic standing for Python float arithmetic.               *)

Abs(n) == IF n < 0 THEN -n ELSE n

RECURSIVE GCD(_, _)
GCD(a, b) == IF b = 0 THEN a ELSE GCD(b, a % b)

\* <<1, 0>> and <<-1, 0>> stand for inf and -inf, <<0, 0>> for nan
Norm(n, d) ==
    LET g == GCD(Abs(n), Abs(d))
        s == IF d < 0 THEN -1 ELSE 1
    IN  IF g = 0 THEN <<0, 0>>
        ELSE <<(s * n) \div g, (s * d) \div g>>

NonFinite(a) == a[2] = 0

Num(n) == <<n, 1>>
Zero == Num(0)
RAdd(a, b) == Norm(a[1] * b[2] + b[1] * a[2], a[2] * b[2])
RSub(a, b) == Norm(a[1] * b[2] - b[1] * a[2], a[2] * b[2])
RMul(a, b) == Norm(a[1] * b[1], a[2] * b[2])
RDiv(a, b) == Norm(a[1] * b[2], a[2] * b[1])
RLt(a, b) == a[1] * b[2] < b[1] * a[2]
RLe(a, b) == a[1] * b[2] <= b[1] * a[2]
RMin(a, b) == IF RLe(a, b) THEN a ELSE b
RMax(a, b) == IF RLe(a, b) THEN b ELSE a

\* int(x): truncation towards zero
Trunc(a) == IF a[1] >= 0 THEN a[1] \div a[2] ELSE -((-a[1]) \div a[2])

\* round(x, 3): nearest multiple of 1/1000, ties to even
Round3(a) ==
    LET n == a[1] * 1000
        q == n \div a[2]
        r == n % a[2]
        up == 2 * r > a[2] \/ (2 * r = a[2] /\ q % 2 = 1)
    IN  Norm(IF up THEN q + 1 ELSE q, 1000)

---------------------------------------------------------------------------
(* Text.  float(), str.strip().upper() on the texts the model uses.        *)

FloatTable ==
    ("-2" :> Num(-2)) @@ ("0" :> Num(0)) @@ ("2" :> Num(2)) @@ ("3" :> Num(3)) @@ ("4" :> Num(4)) @@
    ("5" :> Num(5)) @@ ("6" :> Num(6)) @@ ("7" :> Num(7)) @@ ("8" :> Num(8)) @@
    ("9" :> Num(9)) @@ ("63" :> Num(63)) @@ ("90" :> Num(90)) @@
    ("10" :> Num(10)) @@ ("11" :> Num(11)) @@ ("16" :> Num(16)) @@
    ("17" :> Num(17)) @@ ("17.0" :> Num(17)) @@ ("30" :> Num(30)) @@
    ("50" :> Num(50)) @@ ("100" :> Num(100)) @@ ("110" :> Num(110)) @@
    ("150" :> Num(150)) @@ ("300" :> Num(300)) @@ ("500" :> Num(500)) @@
    ("700" :> Num(700)) @@ ("800" :> Num(800)) @@
    ("1.75" :> <<7, 4>>) @@ ("2.5" :> <<5, 2>>) @@
    ("12.5" :> <<25, 2>>) @@ ("100.01" :> <<10001, 100>>) @@
    ("1e400" :> <<1, 0>>)

IsFloatText(s) == s \in DOMAIN FloatTable
float(s) == FloatTable[s]

UpperTable == ("pe100" :> "PE100") @@ (" PE100 " :> "PE100") @@ ("pe80" :> "PE80")
StripUpper(s) == IF s \in DOMAIN UpperTable THEN UpperTable[s] ELSE s

\* results of calls that may raise
Ok(v) == [ok |-> TRUE, val |-> v]
Raise(e, m) == [ok |-> FALSE, exc |-> e, msg |-> m]

---------------------------------------------------------------------------
(* Reference tables.  A CSV file is the sequence of its rows, a row the    *)
(* sequence of its cells (text).                                           *)

\* pipe_series_sdr.csv: header of SDR values, one row of PN values per
\* grade; with an unsupported (blank) cell, a PN value met twice in a row,
\* a row shorter than the header, a cell that is no number, a blank line
\* and a line without a grade
pipe_series_sdr_csv ==
    << <<"",      "17", "11",   "9">>,
       <<"PE100", "10", "16",   "">>,
       <<"PE80",  "8",  "12.5", "12.5">>,
       <<"PE63",  "5">>,
       <<>>,
       <<"",      "7",  "7",    "7">>,
       <<"PE40",  "x",  "4",    "6">> >>

\* DIN_pivot.csv: header of SDR values, one row of kg/m values per
\* diameter; with a cell that is no number, a blank cell, a short row
\* holding a zero, a blank line and a line whose first cell is no number
DIN_pivot_csv ==
    << <<"",    "17",   "11",  "9">>,
       <<"110", "1.75", "2.5", "3">>,
       <<"90",  "2",    "x",   "">>,
       <<"63",  "0">>,
       <<>>,
       <<"abc", "2",    "2",   "2">> >>

\* a pipe_series_sdr.csv whose header has a blank cell between two SDR
\* values and whose PE80 row is longer than the header
gapped_series_csv ==
    << <<"",      "17", "", "11",   "9">>,
       <<"PE100", "10", "", "16",   "">>,
       <<"PE80",  "8",  "", "12.5", "5", "4">> >>

\* a DIN_pivot.csv whose header has a blank cell between two SDR values
gapped_DIN_csv ==
    << <<"",    "17",   "", "11">>,
       <<"110", "1.75", "", "2.5">> >>

FirstIn(S) == CHOOSE i \in S : \A j \in S : i <= j

\* header[1:], keeping the non-empty cells only (the sdr_list of the loaders)
RECURSIVE header_sdr_list(_)
header_sdr_list(cells) ==
    IF cells = <<>> THEN <<>>
    ELSE (IF Head(cells) = "" THEN <<>> ELSE <<float(Head(cells))>>)
         \o header_sdr_list(Tail(cells))

header_invalid(header) ==
    \E i \in 2..Len(header) : header[i] # "" /\ ~IsFloatText(header[i])

IndexOf(seq, v) == FirstIn({i \in 1..Len(seq) : seq[i] = v})

\* rows[1:] whose first cell is the grade (case-insensitive, stripped)
grade_rows(rows, pipe_grade) ==
    {i \in 2..Len(rows) : /\ rows[i] # <<>>
                          /\ rows[i][1] # ""
                          /\ StripUpper(rows[i][1]) = StripUpper(pipe_grade)}

\* variant: the column after the matching one is reported
get_sdr_for_value_next_column(rows, pipe_grade, pn) ==
    IF rows = <<>> THEN Raise("ValueError", "csv is empty")
    ELSE IF header_invalid(rows[1])
    THEN Raise("ValueError", "Invalid SDR value in header")
    ELSE
      LET sdr_list == header_sdr_list(Tail(rows[1]))
          grows == grade_rows(rows, pipe_grade)
      IN  IF grows = {} THEN Raise("KeyError", "Pipe grade not found")
          ELSE
            LET row == rows[FirstIn(grows)]
                hits == {idx \in 0..(Len(row) - 2) :
                            /\ row[idx + 2] # ""
                            /\ IsFloatText(row[idx + 2])
                            /\ float(row[idx + 2]) = pn}
            IN  IF hits = {} THEN Raise("KeyError", "PN not found for grade")
                ELSE IF FirstIn(hits) + 1 >= Len(sdr_list)
                THEN Raise("IndexError", "list index out of range")
                ELSE Ok(sdr_list[FirstIn(hits) + 2])

LastIn(S) == CHOOSE i \in S : \A j \in S : i >= j

\* variant: the search goes on after a match, the last match is reported
get_sdr_for_value_last_match(rows, pipe_grade, pn) ==
    IF rows = <<>> THEN Raise("ValueError", "csv is empty")
    ELSE IF header_invalid(rows[1])
    THEN Raise("ValueError", "Invalid SDR value in header")
    ELSE
      LET sdr_list == header_sdr_list(Tail(rows[1]))
          grows == grade_rows(rows, pipe_grade)
      IN  IF grows = {} THEN Raise("KeyError", "Pipe grade not found")
          ELSE
            LET row == rows[FirstIn(grows)]
                hits == {idx \in 0..(Len(row) - 2) :
                            /\ row[idx + 2] # ""
                            /\ IsFloatText(row[idx + 2])
                            /\ float(row[idx + 2]) = pn}
            IN  IF hits = {} THEN Raise("KeyError", "PN not found for grade")
                ELSE IF LastIn(hits) >= Len(sdr_list)
                THEN Raise("IndexError", "list index out of range")
                ELSE Ok(sdr_list[LastIn(hits) + 1])

\* get_sdr_for called with a PN that is a float already
get_sdr_for_value(rows, pipe_grade, pn) ==
    IF rows = <<>> THEN Raise("ValueError", "csv is empty")
    ELSE IF header_invalid(rows[1])
    THEN Raise("ValueError", "Invalid SDR value in header")
    ELSE
      LET sdr_list == header_sdr_list(Tail(rows[1]))
          grows == grade_rows(rows, pipe_grade)
      IN  IF grows = {} THEN Raise("KeyError", "Pipe grade not found")
          ELSE
            LET row == rows[FirstIn(grows)]
                \* idx counts from 0 over row[1:]
                hits == {idx \in 0..(Len(row) - 2) :
                            /\ row[idx + 2] # ""
                            /\ IsFloatText(row[idx + 2])
                            /\ float(row[idx + 2]) = pn}
            IN  IF hits = {} THEN Raise("KeyError", "PN not found for grade")
                ELSE IF FirstIn(hits) >= Len(sdr_list)
                THEN Raise("IndexError", "list index out of range")
                ELSE Ok(sdr_list[FirstIn(hits) + 1])

\* get_sdr_for called with the text of the PN widget
get_sdr_for(rows, pipe_grade, pn) ==
    IF rows = <<>> THEN Raise("ValueError", "csv is empty")
    ELSE IF header_invalid(rows[1])
    THEN Raise("ValueError", "Invalid SDR value in header")
    ELSE IF ~IsFloatText(pn) THEN Raise("ValueError", "Invalid PN input")
    ELSE get_sdr_for_value(rows, pipe_grade, float(pn))

\* variant: a blank PN cell is reported as not found
get_pn_for_missing_as_not_found(rows, pipe_grade, sdr) ==
    IF rows = <<>> THEN Raise("ValueError", "csv is empty")
    ELSE IF header_invalid(rows[1])
    THEN Raise("ValueError", "Invalid SDR value in header")
    ELSE
      LET sdr_list == header_sdr_list(Tail(rows[1]))
          grows == grade_rows(rows, pipe_grade)
      IN  IF \A k \in 1..Len(sdr_list) : sdr_list[k] # sdr
          THEN Raise("KeyError", "SDR not found")
          ELSE
            LET col_idx == IndexOf(sdr_list, sdr)
            IN  IF grows = {} THEN Raise("KeyError", "Pipe grade not found")
                ELSE
                  LET row == rows[FirstIn(grows)]
                  IN  IF col_idx < Len(row) /\ row[col_idx + 1] # ""
                      THEN IF IsFloatText(row[col_idx + 1])
                           THEN Ok(float(row[col_idx + 1]))
                           ELSE Raise("ValueError", "Invalid PN value")
                      ELSE Raise("KeyError", "PN missing")

get_pn_for(rows, pipe_grade, sdr) ==
    IF rows = <<>> THEN Raise("ValueError", "csv is empty")
    ELSE IF header_invalid(rows[1])
    THEN Raise("ValueError", "Invalid SDR value in header")
    ELSE
      LET sdr_list == header_sdr_list(Tail(rows[1]))
          grows == grade_rows(rows, pipe_grade)
      IN  IF \A k \in 1..Len(sdr_list) : sdr_list[k] # sdr
          THEN Raise("KeyError", "SDR not found")
          ELSE
            LET col_idx == IndexOf(sdr_list, sdr)   \* 0-based: index + 1
            IN  IF grows = {} THEN Raise("KeyError", "Pipe grade not found")
                ELSE
                  LET row == rows[FirstIn(grows)]
                  IN  IF col_idx < Len(row) /\ row[col_idx + 1] # ""
                      THEN IF IsFloatText(row[col_idx + 1])
                           THEN Ok(float(row[col_idx + 1]))
                           ELSE Raise("ValueError", "Invalid PN value")
                      ELSE Raise("ValueError", "PN missing")

\* rows[1:] whose first cell parses to the diameter
diameter_rows(rows, diameter) ==
    {i \in 2..Len(rows) : /\ rows[i] # <<>>
                          /\ rows[i][1] # ""
                          /\ IsFloatText(rows[i][1])
                          /\ float(rows[i][1]) = diameter}

\* variant: a cell that is blank or past the end of the row weighs nothing
load_weight_table_blank_as_zero(rows, diameter, sdr) ==
    IF rows = <<>> THEN Raise("ValueError", "csv is empty")
    ELSE IF header_invalid(rows[1])
    THEN Raise("ValueError", "Invalid SDR in header")
    ELSE
      LET sdr_list == header_sdr_list(Tail(rows[1]))
          drows == diameter_rows(rows, diameter)
      IN  IF \A k \in 1..Len(sdr_list) : sdr_list[k] # sdr
          THEN Raise("KeyError", "SDR not found")
          ELSE
            LET col_idx == IndexOf(sdr_list, sdr)
            IN  IF drows = {} THEN Raise("KeyError", "Diameter not found")
                ELSE
                  LET row == rows[FirstIn(drows)]
                  IN  IF col_idx < Len(row) /\ row[col_idx + 1] # ""
                      THEN IF IsFloatText(row[col_idx + 1])
                           THEN Ok(float(row[col_idx + 1]))
                           ELSE Raise("ValueError", "Invalid weight value")
                      ELSE Ok(Zero)

load_weight_table(rows, diameter, sdr) ==
    IF rows = <<>> THEN Raise("ValueError", "csv is empty")
    ELSE IF header_invalid(rows[1])
    THEN Raise("ValueError", "Invalid SDR in header")
    ELSE
      LET sdr_list == header_sdr_list(Tail(rows[1]))
          drows == diameter_rows(rows, diameter)
      IN  IF \A k \in 1..Len(sdr_list) : sdr_list[k] # sdr
          THEN Raise("KeyError", "SDR not found")
          ELSE
            LET col_idx == IndexOf(sdr_list, sdr)
            IN  IF drows = {} THEN Raise("KeyError", "Diameter not found")
                ELSE
                  LET row == rows[FirstIn(drows)]
                  IN  IF col_idx < Len(row) /\ row[col_idx + 1] # ""
                      THEN IF IsFloatText(row[col_idx + 1])
                           THEN Ok(float(row[col_idx + 1]))
                           ELSE Raise("ValueError", "Invalid weight value")
                      ELSE Raise("ValueError", "Weight missing")

---------------------------------------------------------------------------
(* price_calculator.py                                                     *)

calculate_total_mass(length, diameter, sdr) ==
    LET mass_per_meter == load_weight_table(DIN_pivot_csv, diameter, sdr)
    IN  IF ~mass_per_meter.ok THEN mass_per_meter
        ELSE Ok(RMul(mass_per_meter.val, length))

\* variant: the mass is multiplied by the mass per meter
calculate_length_from_mass_times(total_mass, diameter, sdr) ==
    LET mass_per_meter == load_weight_table(DIN_pivot_csv, diameter, sdr)
    IN  IF ~mass_per_meter.ok THEN mass_per_meter
        ELSE IF RLe(mass_per_meter.val, Zero)
        THEN Raise("ValueError", "Mass per meter is invalid")
        ELSE Ok(RMul(total_mass, mass_per_meter.val))

calculate_length_from_mass(total_mass, diameter, sdr) ==
    LET mass_per_meter == load_weight_table(DIN_pivot_csv, diameter, sdr)
    IN  IF ~mass_per_meter.ok THEN mass_per_meter
        ELSE IF RLe(mass_per_meter.val, Zero)
        THEN Raise("ValueError", "Mass per meter is invalid")
        ELSE Ok(RDiv(total_mass, mass_per_meter.val))

\* variant: the unit price is applied to the length, not to the mass
calculate_price_of_length(length, diameter, sdr, price_per_kg) ==
    LET mass == calculate_total_mass(length, diameter, sdr)
    IN  IF ~mass.ok THEN mass
        ELSE Ok(RMul(length, price_per_kg))

calculate_price(length, diameter, sdr, price_per_kg) ==
    LET mass == calculate_total_mass(length, diameter, sdr)
    IN  IF ~mass.ok THEN mass
        ELSE Ok(RMul(mass.val, price_per_kg))

calculate_price_per_kg_from_total(total_price, length, diameter, sdr) ==
    LET mass == calculate_total_mass(length, diameter, sdr)
    IN  IF ~mass.ok THEN mass
        ELSE IF RLe(mass.val, Zero)
        THEN Raise("ValueError", "Mass is invalid")
        ELSE Ok(RDiv(total_price, mass.val))

---------------------------------------------------------------------------
(* InvoiceApp.add_item: the body of the try block, as a function of the    *)
(* text in the form.  A PN kept from the form is text, a derived PN is a   *)
(* float.                                                                  *)

PnText(s) == [str |-> s]
PnFloat(r) == [flt |-> r]

\* variant: the PN is always re-derived from a supplied SDR
add_item_sdr_pn_rederived(e) ==
    IF e.sdr = ""
    THEN IF e.pn # ""
         THEN LET r == get_sdr_for(pipe_series_sdr_csv, e.grade, e.pn)
              IN  IF r.ok THEN Ok([sdr |-> r.val, pn |-> PnText(e.pn)]) ELSE r
         ELSE Raise("ValueError", "Please provide either SDR or PN.")
    ELSE IF ~IsFloatText(e.sdr)
         THEN Raise("ValueError", "could not convert string to float")
         ELSE LET sdr == float(e.sdr)
                  r == get_pn_for(pipe_series_sdr_csv, e.grade, sdr)
              IN  IF r.ok THEN Ok([sdr |-> sdr, pn |-> PnFloat(r.val)]) ELSE r

\* "Determine SDR and PN"
add_item_sdr_pn(e) ==
    IF e.sdr = ""
    THEN IF e.pn # ""
         THEN LET r == get_sdr_for(pipe_series_sdr_csv, e.grade, e.pn)
              IN  IF r.ok THEN Ok([sdr |-> r.val, pn |-> PnText(e.pn)]) ELSE r
         ELSE Raise("ValueError", "Please provide either SDR or PN.")
    ELSE IF ~IsFloatText(e.sdr)
         THEN Raise("ValueError", "could not convert string to float")
         ELSE LET sdr == float(e.sdr)
              IN  IF e.pn = ""
                  THEN LET r == get_pn_for(pipe_series_sdr_csv, e.grade, sdr)
                       IN  IF r.ok
                           THEN Ok([sdr |-> sdr, pn |-> PnFloat(r.val)])
                           ELSE r
                  ELSE Ok([sdr |-> sdr, pn |-> PnText(e.pn)])

\* variant: a supplied mass wins over a supplied length
add_item_quantity_mass_first(e, diameter, sdr) ==
    IF e.total_mass # ""
    THEN IF ~IsFloatText(e.total_mass)
         THEN Raise("ValueError", "could not convert string to float")
         ELSE LET total_mass == float(e.total_mass)
                  l == calculate_length_from_mass(total_mass, diameter, sdr)
              IN  IF l.ok THEN Ok([length |-> l.val, total_mass |-> total_mass])
                  ELSE l
    ELSE IF e.length # ""
    THEN IF ~IsFloatText(e.length)
         THEN Raise("ValueError", "could not convert string to float")
         ELSE LET length == float(e.length)
                  m == calculate_total_mass(length, diameter, sdr)
              IN  IF m.ok THEN Ok([length |-> length, total_mass |-> m.val])
                  ELSE m
    ELSE Raise("ValueError", "Please provide either Length or Total Mass.")

\* variant: a supplied mass is stored next to a supplied length
add_item_quantity_keeps_mass(e, diameter, sdr) ==
    IF e.length # ""
    THEN IF ~IsFloatText(e.length)
         THEN Raise("ValueError", "could not convert string to float")
         ELSE LET length == float(e.length)
                  m == calculate_total_mass(length, diameter, sdr)
              IN  IF ~m.ok THEN m
                  ELSE IF e.total_mass # "" /\ IsFloatText(e.total_mass)
                  THEN Ok([length |-> length,
                           total_mass |-> float(e.total_mass)])
                  ELSE Ok([length |-> length, total_mass |-> m.val])
    ELSE IF e.total_mass # ""
    THEN IF ~IsFloatText(e.total_mass)
         THEN Raise("ValueError", "could not convert string to float")
         ELSE LET total_mass == float(e.total_mass)
                  l == calculate_length_from_mass(total_mass, diameter, sdr)
              IN  IF l.ok THEN Ok([length |-> l.val, total_mass |-> total_mass])
                  ELSE l
    ELSE Raise("ValueError", "Please provide either Length or Total Mass.")

\* variant: a form without length and mass is taken as zero length
add_item_quantity_blank_as_zero(e, diameter, sdr) ==
    IF e.length = "" /\ e.total_mass = ""
    THEN Ok([length |-> Zero, total_mass |-> Zero])
    ELSE IF e.length # ""
    THEN IF ~IsFloatText(e.length)
         THEN Raise("ValueError", "could not convert string to float")
         ELSE LET length == float(e.length)
                  m == calculate_total_mass(length, diameter, sdr)
              IN  IF m.ok THEN Ok([length |-> length, total_mass |-> m.val])
                  ELSE m
    ELSE IF ~IsFloatText(e.total_mass)
         THEN Raise("ValueError", "could not convert string to float")
         ELSE LET total_mass == float(e.total_mass)
                  l == calculate_length_from_mass(total_mass, diameter, sdr)
              IN  IF l.ok THEN Ok([length |-> l.val, total_mass |-> total_mass])
                  ELSE l

\* "Determine length and total mass"
add_item_quantity(e, diameter, sdr) ==
    IF e.length # ""
    THEN IF ~IsFloatText(e.length)
         THEN Raise("ValueError", "could not convert string to float")
         ELSE LET length == float(e.length)
                  m == calculate_total_mass(length, diameter, sdr)
              IN  IF m.ok THEN Ok([length |-> length, total_mass |-> m.val])
                  ELSE m
    ELSE IF e.total_mass # ""
    THEN IF ~IsFloatText(e.total_mass)
         THEN Raise("ValueError", "could not convert string to float")
         ELSE LET total_mass == float(e.total_mass)
                  l == calculate_length_from_mass(total_mass, diameter, sdr)
              IN  IF l.ok THEN Ok([length |-> l.val, total_mass |-> total_mass])
                  ELSE l
    ELSE Raise("ValueError", "Please provide either Length or Total Mass.")

\* variant: the total is recomputed from a supplied unit price
add_item_price_recomputed(e, total_mass) ==
    IF e.price_per_kg # ""
    THEN IF ~IsFloatText(e.price_per_kg)
         THEN Raise("ValueError", "could not convert string to float")
         ELSE LET price_per_kg == float(e.price_per_kg)
              IN  Ok([price_per_kg |-> price_per_kg,
                      total_price |-> RMul(total_mass, price_per_kg)])
    ELSE IF e.total_price # ""
    THEN IF ~IsFloatText(e.total_price)
         THEN Raise("ValueError", "could not convert string to float")
         ELSE IF total_mass = Zero
         THEN Raise("ZeroDivisionError", "float division by zero")
         ELSE Ok([price_per_kg |-> RDiv(float(e.total_price), total_mass),
                  total_price |-> float(e.total_price)])
    ELSE Raise("ValueError",
               "Please provide either Price per kg or Total Price.")

\* "Determine price per kg and total price, preferring the displayed total"
add_item_price(e, total_mass) ==
    IF e.total_price # ""
    THEN IF ~IsFloatText(e.total_price)
         THEN Raise("ValueError", "could not convert string to float")
         ELSE LET total_price == float(e.total_price)
              IN  IF e.price_per_kg # ""
                  THEN IF ~IsFloatText(e.price_per_kg)
                       THEN Raise("ValueError",
                                  "could not convert string to float")
                       ELSE Ok([price_per_kg |-> float(e.price_per_kg),
                                total_price |-> total_price])
                  ELSE IF total_mass = Zero
                       THEN Raise("ZeroDivisionError", "float division by zero")
                       ELSE Ok([price_per_kg |-> RDiv(total_price, total_mass),
                                total_price |-> total_price])
    ELSE IF e.price_per_kg # ""
    THEN IF ~IsFloatText(e.price_per_kg)
         THEN Raise("ValueError", "could not convert string to float")
         ELSE LET price_per_kg == float(e.price_per_kg)
              IN  Ok([price_per_kg |-> price_per_kg,
                      total_price |-> RMul(total_mass, price_per_kg)])
    ELSE Raise("ValueError",
               "Please provide either Price per kg or Total Price.")

add_item(e) ==
    LET \* the dictionary appended to standard_items
        stored(diameter, sp, w, q, p) ==
            IF ~p.ok THEN p
            ELSE Ok([grade |-> e.grade,
                     pn |-> sp.val.pn,
                     sdr |-> sp.val.sdr,
                     diameter |-> diameter,
                     length |-> q.val.length,
                     weight_per_m |-> w.val,
                     total_mass |-> q.val.total_mass,
                     price_per_kg |-> p.val.price_per_kg,
                     total_price |-> p.val.total_price])
        priced(diameter, sp, w, q) ==
            IF ~q.ok THEN q
            ELSE stored(diameter, sp, w, q,
                        add_item_price(e, q.val.total_mass))
        measured(diameter, sp, w) ==
            IF ~w.ok THEN w
            ELSE priced(diameter, sp, w,
                        add_item_quantity(e, diameter, sp.val.sdr))
        weighed(diameter, sp) ==
            IF ~sp.ok THEN sp
            ELSE measured(diameter, sp,
                          load_weight_table(DIN_pivot_csv, diameter,
                                            sp.val.sdr))
    IN  IF ~IsFloatText(e.diameter)
        THEN Raise("ValueError", "could not convert string to float")
        ELSE weighed(float(e.diameter), add_item_sdr_pn(e))

\* the values handed to standard_tree.insert for the item at position no
tree_row(no, item) ==
    [no |-> no, grade |-> item.grade, pn |-> item.pn, sdr |-> item.sdr,
     diameter |-> item.diameter, length |-> item.length,
     weight_per_m |-> Round3(item.weight_per_m),
     total_mass |-> Round3(item.total_mass),
     price_per_kg |-> Trunc(item.price_per_kg),
     total_price |-> Trunc(item.total_price)]

\* add_item builds the row after it has appended the item: int() of the
\* unit price, then of the total price, raises on inf and on nan
tree_row_error(item) ==
    LET int_of(a) == IF a = <<0, 0>>
                     THEN Raise("ValueError",
                                "cannot convert float NaN to integer")
                     ELSE Raise("OverflowError",
                                "cannot convert float infinity to integer")
    IN  IF NonFinite(item.price_per_kg) THEN int_of(item.price_per_kg)
        ELSE IF NonFinite(item.total_price) THEN int_of(item.total_price)
        ELSE Ok(item)

---------------------------------------------------------------------------
(* Discount schedule and the tiered / custom discount arithmetic of the    *)
(* PDF generators (create_pdf.py).  A threshold is <<price, pct>>.         *)

Hundred == Num(100)
AddedValueRate == <<1, 10>>

\* rows of discount.csv kept by the loader: two cells that both parse
RECURSIVE parse_threshold_rows(_)
\* variant: reading stops at the first row that does not parse
RECURSIVE parse_threshold_rows_until_malformed(_)
parse_threshold_rows_until_malformed(rows) ==
    IF rows = <<>> THEN <<>>
    ELSE LET row == Head(rows)
             keep == /\ Len(row) >= 2
                     /\ IsFloatText(row[1])
                     /\ IsFloatText(row[2])
         IN  IF keep
             THEN << <<float(row[1]), float(row[2])>> >>
                  \o parse_threshold_rows_until_malformed(Tail(rows))
             ELSE <<>>

parse_threshold_rows(rows) ==
    IF rows = <<>> THEN <<>>
    ELSE LET row == Head(rows)
             keep == /\ Len(row) >= 2
                     /\ IsFloatText(row[1])
                     /\ IsFloatText(row[2])
         IN  (IF keep THEN << <<float(row[1]), float(row[2])>> >> ELSE <<>>)
             \o parse_threshold_rows(Tail(rows))

\* list.sort(key=lambda x: x[0]): stable, ascending by price
RECURSIVE insert_by_price(_, _)
insert_by_price(sorted, t) ==
    IF sorted = <<>> THEN <<t>>
    ELSE IF RLt(t[1], Head(sorted)[1]) THEN <<t>> \o sorted
    ELSE <<Head(sorted)>> \o insert_by_price(Tail(sorted), t)

RECURSIVE sort_by_price(_)
sort_by_price(ts) ==
    IF ts = <<>> THEN <<>>
    ELSE insert_by_price(sort_by_price(SubSeq(ts, 1, Len(ts) - 1)), ts[Len(ts)])

\* get_discount, "Read and parse thresholds": rows with fewer than two
\* cells or a blank cell are passed over
discount_entries(rows) ==
    SelectSeq(rows, LAMBDA row : Len(row) >= 2 /\ row[1] # "" /\ row[2] # "")

discount_entry_invalid(row) == ~IsFloatText(row[1]) \/ ~IsFloatText(row[2])

\* get_discount, "Determine applicable discount": the loop from index i on
RECURSIVE get_discount_from(_, _, _, _)
get_discount_from(thresholds, order_price, i, discount_pct) ==
    IF i > Len(thresholds) THEN discount_pct
    ELSE IF RLe(thresholds[i][1], order_price)
    THEN get_discount_from(thresholds, order_price, i + 1, thresholds[i][2])
    ELSE discount_pct

\* variant: the thresholds are scanned in file order
get_discount_unsorted(csv, order_price) ==
    IF ~csv.exists THEN Raise("FileNotFoundError", "Discount file not found")
    ELSE IF \E k \in 1..Len(discount_entries(csv.rows)) :
                discount_entry_invalid(discount_entries(csv.rows)[k])
    THEN Raise("ValueError", "Invalid discount entry")
    ELSE IF discount_entries(csv.rows) = <<>>
    THEN Raise("ValueError", "No discount thresholds found")
    ELSE Ok(get_discount_from(parse_threshold_rows(discount_entries(csv.rows)),
                              order_price, 1, Zero))

get_discount(csv, order_price) ==
    IF ~csv.exists THEN Raise("FileNotFoundError", "Discount file not found")
    ELSE IF \E k \in 1..Len(discount_entries(csv.rows)) :
                discount_entry_invalid(discount_entries(csv.rows)[k])
    THEN Raise("ValueError", "Invalid discount entry")
    ELSE IF discount_entries(csv.rows) = <<>>
    THEN Raise("ValueError", "No discount thresholds found")
    ELSE Ok(get_discount_from(
                sort_by_price(parse_threshold_rows(discount_entries(csv.rows))),
                order_price, 1, Zero))

\* "Load discount thresholds": parse, sort, prepend the zero threshold
load_thresholds(csv) ==
    LET thresholds == IF csv.exists THEN parse_threshold_rows(csv.rows)
                      ELSE <<>>
    IN  << <<Zero, Zero>> >> \o sort_by_price(thresholds)

\* variants of the bracket segment, for the sensitivity checks of the claims
tiered_segment_unguarded(total_price_all, min_price, next_price) ==
    RSub(RMin(total_price_all, next_price), min_price)

tiered_segment_uncapped(total_price_all, min_price, next_price) ==
    IF RLt(min_price, total_price_all)
    THEN RSub(next_price, min_price)
    ELSE Zero

tiered_segment_swapped(total_price_all, min_price, next_price) ==
    IF RLt(min_price, total_price_all)
    THEN RSub(min_price, RMin(total_price_all, next_price))
    ELSE Zero

\* the segment of one bracket
tiered_segment(total_price_all, min_price, next_price) ==
    IF RLt(min_price, total_price_all)
    THEN RSub(RMin(total_price_all, next_price), min_price)
    ELSE Zero

\* "Calculate tiered discount amount": the loop from index i on
RECURSIVE tiered_discount_from(_, _, _)
tiered_discount_from(thresholds, total_price_all, i) ==
    IF i > Len(thresholds) THEN Zero
    ELSE LET min_price == thresholds[i][1]
             pct == thresholds[i][2]
             next_price == IF i + 1 <= Len(thresholds)
                           THEN thresholds[i + 1][1]
                           ELSE total_price_all
             segment == tiered_segment(total_price_all, min_price, next_price)
         IN  RAdd(RMul(segment, RDiv(pct, Hundred)),
                  tiered_discount_from(thresholds, total_price_all, i + 1))

tiered_discount(csv, total_price_all) ==
    tiered_discount_from(load_thresholds(csv), total_price_all, 1)

\* create_invoice_EN.generate_pdf_with_discount, "Calculate tiered discount
\* amount": the loop from index i on.  The assignment of segment sits on
\* the line of the if, the addition follows the if: a bracket the total
\* does not reach adds the segment left by the bracket before it, and
\* raises when no bracket has assigned one yet.
RECURSIVE EN_tiered_discount_from(_, _, _, _)
EN_tiered_discount_from(thresholds, total_price_all, i, segment) ==
    IF i > Len(thresholds) THEN Ok(Zero)
    ELSE LET min_price == thresholds[i][1]
             pct == thresholds[i][2]
             next_price == IF i + 1 <= Len(thresholds)
                           THEN thresholds[i + 1][1]
                           ELSE total_price_all
             now == IF RLt(min_price, total_price_all)
                    THEN Ok(RSub(RMin(total_price_all, next_price), min_price))
                    ELSE segment
             rest == EN_tiered_discount_from(thresholds, total_price_all,
                                             i + 1, now)
         IN  IF ~now.ok THEN now
             ELSE IF ~rest.ok THEN rest
             ELSE Ok(RAdd(RMul(now.val, RDiv(pct, Hundred)), rest.val))

\* create_invoice_EN.generate_pdf_with_discount_and_added_value, "Calculate
\* tiered discount amount": the addition sits inside the if
RECURSIVE EN_tiered_discount_and_added_value_from(_, _, _)
EN_tiered_discount_and_added_value_from(thresholds, total_price_all, i) ==
    IF i > Len(thresholds) THEN Zero
    ELSE LET min_price == thresholds[i][1]
             pct == thresholds[i][2]
             next_price == IF i + 1 <= Len(thresholds)
                           THEN thresholds[i + 1][1]
                           ELSE total_price_all
             rest == EN_tiered_discount_and_added_value_from(
                         thresholds, total_price_all, i + 1)
         IN  IF RLt(min_price, total_price_all)
             THEN RAdd(RMul(RSub(RMin(total_price_all, next_price), min_price),
                            RDiv(pct, Hundred)),
                       rest)
             ELSE rest

\* variant: the boundary value 100 taken as an absolute amount
custom_discount_amount_exclusive(total_price_all, discount) ==
    IF RLt(discount, Hundred)
    THEN RMul(total_price_all, RDiv(discount, Hundred))
    ELSE discount

\* "Determine discount amount" of the custom-discount generators
custom_discount_amount(total_price_all, discount) ==
    IF RLe(discount, Hundred)
    THEN RMul(total_price_all, RDiv(discount, Hundred))
    ELSE discount

\* total_price_all += itm["total_price"]
RECURSIVE sum_total_price(_)
sum_total_price(items) ==
    IF items = <<>> THEN Zero
    ELSE RAdd(Head(items).total_price, sum_total_price(Tail(items)))

generate_pdf(items) ==
    LET total_price_all == sum_total_price(items)
    IN  [total_price_all |-> total_price_all, discount_amount |-> Zero,
         added_value |-> Zero, final_total |-> total_price_all]

generate_pdf_with_added_value(items) ==
    LET total_price_all == sum_total_price(items)
        added_value == RMul(total_price_all, AddedValueRate)
    IN  [total_price_all |-> total_price_all, discount_amount |-> Zero,
         added_value |-> added_value,
         final_total |-> RAdd(total_price_all, added_value)]

generate_pdf_with_discount(items, csv) ==
    LET total_price_all == sum_total_price(items)
        discount_amount == tiered_discount(csv, total_price_all)
    IN  [total_price_all |-> total_price_all,
         discount_amount |-> discount_amount, added_value |-> Zero,
         final_total |-> RSub(total_price_all, discount_amount)]

generate_pdf_with_custom_discount(items, discount) ==
    LET total_price_all == sum_total_price(items)
        discount_amount == custom_discount_amount(total_price_all, discount)
    IN  [total_price_all |-> total_price_all,
         discount_amount |-> discount_amount, added_value |-> Zero,
         final_total |-> RSub(total_price_all, discount_amount)]

\* variant: the surcharge taken on the subtotal before discount
generate_pdf_with_discount_and_added_value_on_gross(items, csv) ==
    LET total_price_all == sum_total_price(items)
        discount_amount == tiered_discount(csv, total_price_all)
        added_value_amount == RMul(total_price_all, AddedValueRate)
    IN  [total_price_all |-> total_price_all,
         discount_amount |-> discount_amount,
         added_value |-> added_value_amount,
         final_total |-> RSub(RAdd(total_price_all, added_value_amount),
                              discount_amount)]

generate_pdf_with_discount_and_added_value(items, csv) ==
    LET total_price_all == sum_total_price(items)
        discount_amount == tiered_discount(csv, total_price_all)
        net_amount == RSub(total_price_all, discount_amount)
        added_value_amount == RMul(net_amount, AddedValueRate)
    IN  [total_price_all |-> total_price_all,
         discount_amount |-> discount_amount,
         added_value |-> added_value_amount,
         final_total |-> RAdd(net_amount, added_value_amount)]

generate_pdf_with_custom_discount_and_added_value(items, discount) ==
    LET total_price_all == sum_total_price(items)
        discount_amount == custom_discount_amount(total_price_all, discount)
        net_amount == RSub(total_price_all, discount_amount)
        added_value_amount == RMul(net_amount, AddedValueRate)
    IN  [total_price_all |-> total_price_all,
         discount_amount |-> discount_amount,
         added_value |-> added_value_amount,
         final_total |-> RAdd(net_amount, added_value_amount)]

\* fitting ("connection") invoices
generate_connection_invoice_pdf_with_discount(items, csv) ==
    LET total_price_all == sum_total_price(items)
        discount_amount == tiered_discount(csv, total_price_all)
    IN  [total_price_all |-> total_price_all,
         discount_amount |-> discount_amount, added_value |-> Zero,
         final_total |-> RSub(total_price_all, discount_amount)]

generate_connection_invoice_pdf_with_custom_discount(items, discount) ==
    LET total_price_all == sum_total_price(items)
        discount_amount == custom_discount_amount(total_price_all, discount)
    IN  [total_price_all |-> total_price_all,
         discount_amount |-> discount_amount, added_value |-> Zero,
         final_total |-> RSub(total_price_all, discount_amount)]

generate_connection_invoice_pdf_with_discount_and_added_value(items, csv) ==
    LET total_price_all == sum_total_price(items)
        discount_amount == tiered_discount(csv, total_price_all)
        net_after_discount == RSub(total_price_all, discount_amount)
        added_value == RMul(net_after_discount, AddedValueRate)
    IN  [total_price_all |-> total_price_all,
         discount_amount |-> discount_amount, added_value |-> added_value,
         final_total |-> RAdd(net_after_discount, added_value)]

generate_connection_invoice_pdf_with_custom_discount_and_added_value(items, discount) ==
    LET total_price_all == sum_total_price(items)
        discount_amount == custom_discount_amount(total_price_all, discount)
        net_after_discount == RSub(total_price_all, discount_amount)
        added_value == RMul(net_after_discount, AddedValueRate)
    IN  [total_price_all |-> total_price_all,
         discount_amount |-> discount_amount, added_value |-> added_value,
         final_total |-> RAdd(net_after_discount, added_value)]

---------------------------------------------------------------------------
(* InvoiceApp.update_subtotal: the amounts shown on screen.                *)

\* the loop over the sorted thresholds, from index idx on
RECURSIVE update_subtotal_tiered_from(_, _, _)
update_subtotal_tiered_from(thresholds, subtotal, idx) ==
    IF idx > Len(thresholds) THEN Zero
    ELSE LET thr == thresholds[idx][1]
             pct == thresholds[idx][2]
             upper == IF idx + 1 <= Len(thresholds)
                      THEN thresholds[idx + 1][1]
                      ELSE subtotal
             seg == RSub(RMin(subtotal, upper), thr)
             part == IF RLt(thr, subtotal) /\ RLt(Zero, seg)
                     THEN RDiv(RMul(seg, pct), Hundred)
                     ELSE Zero
         IN  RAdd(part, update_subtotal_tiered_from(thresholds, subtotal, idx + 1))

\* "Load tiered discount thresholds": parse and sort
update_subtotal_thresholds(csv) ==
    sort_by_price(IF csv.exists THEN parse_threshold_rows(csv.rows) ELSE <<>>)

update_subtotal_tiered(csv, subtotal) ==
    update_subtotal_tiered_from(update_subtotal_thresholds(csv), subtotal, 1)

\* variant: the preview takes the surcharge on the subtotal before discount
update_subtotal_added_on_gross(items, include_discount, custom, include_added, csv) ==
    LET subtotal == sum_total_price(items)
        discount_amount ==
            IF ~include_discount THEN Zero
            ELSE IF custom # ""
                 THEN IF IsFloatText(custom)
                      THEN RMul(subtotal, RDiv(float(custom), Hundred))
                      ELSE Zero
                 ELSE update_subtotal_tiered(csv, subtotal)
        added == IF include_added
                 THEN RMul(subtotal, AddedValueRate)
                 ELSE Zero
    IN  [discount_amount |-> discount_amount, added |-> added,
         total_with_adjustments |->
             RAdd(RSub(subtotal, discount_amount), added)]

update_subtotal(items, include_discount, custom, include_added, csv) ==
    LET subtotal == sum_total_price(items)
        discount_amount ==
            IF ~include_discount THEN Zero
            ELSE IF custom # ""
                 THEN IF IsFloatText(custom)
                      THEN RMul(subtotal, RDiv(float(custom), Hundred))
                      ELSE Zero
                 ELSE update_subtotal_tiered(csv, subtotal)
        subtotal_after_discount == RSub(subtotal, discount_amount)
        added == IF include_added
                 THEN RMul(subtotal_after_discount, AddedValueRate)
                 ELSE Zero
    IN  [discount_amount |-> discount_amount, added |-> added,
         total_with_adjustments |-> RAdd(subtotal_after_discount, added)]

\* update_subtotal sets the discount display, then the total and the
\* surcharge displays: int() of a non-finite amount raises on the way and
\* leaves the displays after it as they were
update_subtotal_display(before, computed) ==
    IF NonFinite(computed.discount_amount) THEN before
    ELSE IF NonFinite(computed.total_with_adjustments)
    THEN [before EXCEPT !.discount_amount = computed.discount_amount]
    ELSE computed

---------------------------------------------------------------------------
(* Bounds and input sets.                                                  *)

MaxItems == 2        \* longest standard_items list explored
MaxPdfItems == 2     \* longest item list handed to a generator

Grades == {"PE100", "pe100", "PEX"}
PnTexts == {"", "16"}
SdrTexts == {"", "17", "11"}
LengthTexts == {"", "2", "0"}
MassTexts == {"", "3"}
PriceTexts == {"", "5"}
TotalTexts == {"", "30"}

\* a complete form; the sets below vary one group of widgets at a time
BaseEntries ==
    [grade |-> "PE100", pn |-> "", sdr |-> "17", diameter |-> "110",
     length |-> "2", total_mass |-> "", price_per_kg |-> "5",
     total_price |-> ""]

EntrySet ==
    {[BaseEntries EXCEPT !.grade = g] : g \in Grades}
    \cup {[BaseEntries EXCEPT !.pn = p, !.sdr = s] :
              p \in PnTexts, s \in SdrTexts}
    \cup {[BaseEntries EXCEPT !.length = l, !.total_mass = m,
                              !.price_per_kg = p, !.total_price = t] :
              l \in LengthTexts, m \in MassTexts,
              p \in PriceTexts, t \in TotalTexts}
    \* a negative length with the unit price left to be derived, and a
    \* unit price beyond the largest float
    \cup {[BaseEntries EXCEPT !.length = "-2", !.price_per_kg = "",
                              !.total_price = "30"],
          [BaseEntries EXCEPT !.price_per_kg = "1e400"]}

BlankEntries ==
    [grade |-> "", pn |-> "", sdr |-> "", diameter |-> "", length |-> "",
     total_mass |-> "", price_per_kg |-> "", total_price |-> ""]

\* discount.csv contents explored
Schedules ==
    { [exists |-> FALSE, rows |-> <<>>],
      [exists |-> TRUE, rows |-> << <<"100", "2">>, <<"500", "4">>, <<"700", "6">> >>],
      [exists |-> TRUE, rows |-> << <<"700", "6">>, <<"100", "2">>, <<"500", "4">> >>],
      [exists |-> TRUE, rows |-> << <<"100", "2">>, <<"x", "9">>, <<"300">>, <<"500", "">>, <<"700", "6">> >>],
      [exists |-> TRUE, rows |-> << <<"0", "100">>, <<"300", "50">> >>],
      [exists |-> TRUE, rows |-> << <<"100", "2">>, <<"100", "10">>, <<"500", "0">> >>],
      [exists |-> TRUE, rows |-> << <<"100", "150">> >>] }

DefaultSchedule ==
    [exists |-> TRUE, rows |-> << <<"100", "2">>, <<"500", "4">>, <<"700", "6">> >>]

\* total prices of the items handed to the generators
PdfTotalTexts == {"50", "300", "800"}
ConnTotalTexts == {"300"}
\* values of the discount argument of the custom-discount generators
CustomDiscounts == {float("0"), float("2.5"), float("100"), float("100.01"),
                    float("150")}

\* the item add_item stores for 2 m of PE100 SDR 17 d110 at total price t
ItemOfTotal(t) ==
    add_item([grade |-> "PE100", pn |-> "", sdr |-> "17", diameter |-> "110",
              length |-> "2", total_mass |-> "", price_per_kg |-> "",
              total_price |-> t]).val

\* the non-empty lists: an invoice is generated for at least one item
SeqsUpTo(S, n) == UNION {[1..k -> S] : k \in 1..n}

PricedItemLists == SeqsUpTo({ItemOfTotal(t) : t \in PdfTotalTexts}, MaxPdfItems)

\* the item add_connection_item_action stores for one fitting at price t
ConnectionItemOfTotal(t) ==
    [type |-> "elbow", product |-> "90", size |-> "110", quantity |-> Num(1),
     price_per_piece |-> float(t), total_price |-> float(t)]

ConnectionItemLists ==
    SeqsUpTo({ConnectionItemOfTotal(t) : t \in ConnTotalTexts}, MaxPdfItems)

tree_rows(items) == [k \in 1..Len(items) |-> tree_row(k, items[k])]

\* generate_invoice: "Prepare items in the format expected by generate_pdf"
pdf_items(items) ==
    [k \in 1..Len(items) |->
        [diameter |-> items[k].diameter, sdr |-> items[k].sdr,
         grade |-> items[k].grade, length |-> items[k].length,
         weight_per_meter |-> items[k].weight_per_m,
         total_weight |-> items[k].total_mass,
         price_per_kg |-> items[k].price_per_kg,
         total_price |-> items[k].total_price]]

---------------------------------------------------------------------------
(* The form: filling the item-detail widgets and pressing "Add Item".      *)

\* the columns of standard_tree
Columns ==
    {"no", "grade", "pn", "sdr", "diameter", "length", "weight_per_m",
     "total_mass", "price_per_kg", "total_price"}

\* no counter file yet: the invoice number widget proposes 1
NoCounterFile == [exists |-> FALSE, counter |-> 0]

\* the widgets and files that the form and the arithmetic leave untouched
StartOfSession ==
    /\ standard_sort_dirs = [col \in Columns |-> FALSE]
    /\ customer_entry = ""
    /\ counter_file = NoCounterFile
    /\ invoice_entry = "1"
    /\ args = [fn |-> "none"]
    /\ call = [fn |-> "none"]

Init ==
    /\ StartOfSession
    /\ discount_csv = DefaultSchedule
    /\ standard_entries = BlankEntries
    /\ standard_items = <<>>
    /\ standard_tree = <<>>
    /\ connection_items = <<>>
    /\ include_discount_var = FALSE
    /\ include_added_var = FALSE
    /\ custom_discount_var = ""
    /\ shown = update_subtotal(<<>>, FALSE, "", FALSE, DefaultSchedule)
    /\ add_outcome = [status |-> "none"]
    /\ pdf = [generator |-> "none"]

\* the user fills the item-detail widgets
EditEntries ==
    \E e \in EntrySet :
        /\ e # standard_entries
        /\ standard_entries' = e
        /\ add_outcome' = [status |-> "none"]
        /\ UNCHANGED <<standard_sort_dirs, invoice_vars, library_vars>>
        /\ UNCHANGED <<discount_csv, standard_items, standard_tree,
                       connection_items, include_discount_var, include_added_var,
                       custom_discount_var, shown, pdf>>

\* InvoiceApp.add_item, when every attribute resolves and the displays
\* can be written
AddItemOk ==
    \E r \in {add_item(standard_entries)} :
        /\ Len(standard_items) < MaxItems
        /\ r.ok
        /\ tree_row_error(r.val).ok
        /\ standard_items' = Append(standard_items, r.val)
        /\ standard_tree' =
               Append(standard_tree, tree_row(Len(standard_items) + 1, r.val))
        /\ shown' = update_subtotal(standard_items', include_discount_var,
                                    custom_discount_var, include_added_var,
                                    discount_csv)
        /\ ~NonFinite(shown'.total_with_adjustments)
        /\ add_outcome' = [status |-> "added", entries |-> standard_entries,
                           item |-> r.val]
        /\ UNCHANGED <<standard_sort_dirs, invoice_vars, library_vars>>
        /\ UNCHANGED <<discount_csv, standard_entries, connection_items,
                       include_discount_var, include_added_var,
                       custom_discount_var, pdf>>

\* InvoiceApp.add_item, when a step raises: the error box is shown
AddItemError ==
    \E r \in {add_item(standard_entries)} :
        /\ ~r.ok
        /\ add_outcome' = [status |-> "error", entries |-> standard_entries,
                           exc |-> r.exc, message |-> r.msg]
        /\ UNCHANGED <<standard_sort_dirs, invoice_vars, library_vars>>
        /\ UNCHANGED <<discount_csv, standard_entries, standard_items,
                       standard_tree, connection_items, include_discount_var,
                       include_added_var, custom_discount_var, shown, pdf>>

\* InvoiceApp.add_item, when the row of the appended item cannot be
\* built: the item stays in the list, nothing is displayed, the error box
\* is shown
AddItemRowError ==
    \E r \in {add_item(standard_entries)} :
        /\ Len(standard_items) < MaxItems
        /\ r.ok
        /\ ~tree_row_error(r.val).ok
        /\ standard_items' = Append(standard_items, r.val)
        /\ add_outcome' = [status |-> "error", entries |-> standard_entries,
                           exc |-> tree_row_error(r.val).exc,
                           message |-> tree_row_error(r.val).msg]
        /\ UNCHANGED <<standard_sort_dirs, invoice_vars, library_vars>>
        /\ UNCHANGED <<discount_csv, standard_entries, standard_tree,
                       connection_items, include_discount_var,
                       include_added_var, custom_discount_var, shown, pdf>>

\* InvoiceApp.add_item, when update_subtotal raises on a list that holds a
\* non-finite total from an earlier call: item and row are added, the
\* displays are written in part, the error box is shown
AddItemSubtotalError ==
    \E r \in {add_item(standard_entries)} :
        /\ Len(standard_items) < MaxItems
        /\ r.ok
        /\ tree_row_error(r.val).ok
        /\ standard_items' = Append(standard_items, r.val)
        /\ standard_tree' =
               Append(standard_tree, tree_row(Len(standard_items) + 1, r.val))
        /\ \E computed \in {update_subtotal(standard_items',
                                include_discount_var, custom_discount_var,
                                include_added_var, discount_csv)} :
             /\ NonFinite(computed.total_with_adjustments)
             /\ shown' = update_subtotal_display(shown, computed)
             /\ add_outcome' =
                    [status |-> "error", entries |-> standard_entries,
                     exc |-> IF computed.total_with_adjustments = <<0, 0>>
                             THEN "ValueError" ELSE "OverflowError",
                     message |-> "cannot convert float to integer"]
        /\ UNCHANGED <<standard_sort_dirs, invoice_vars, library_vars>>
        /\ UNCHANGED <<discount_csv, standard_entries, connection_items,
                       include_discount_var, include_added_var,
                       custom_discount_var, pdf>>

AddItem ==
    AddItemOk \/ AddItemError \/ AddItemRowError \/ AddItemSubtotalError

Next == EditEntries \/ AddItem

Spec == Init /\ [][Next]_vars

---------------------------------------------------------------------------
(* The discount arithmetic on its own: the schedule file and the item list *)
(* are drawn at the start, and every generator is applied to them.         *)

InitCalc ==
    /\ StartOfSession
    /\ discount_csv \in Schedules
    /\ standard_entries = BlankEntries
    /\ standard_items \in PricedItemLists
    /\ standard_tree = tree_rows(standard_items)
    /\ connection_items \in ConnectionItemLists
    /\ include_discount_var = FALSE
    /\ include_added_var = FALSE
    /\ custom_discount_var = ""
    /\ shown = update_subtotal(standard_items, FALSE, "", FALSE, discount_csv)
    /\ add_outcome = [status |-> "none"]
    /\ pdf = [generator |-> "none"]

Produced(name, doc) ==
    /\ pdf' = [generator |-> name] @@ doc
    /\ UNCHANGED <<standard_sort_dirs, invoice_vars, library_vars>>
    /\ UNCHANGED <<discount_csv, standard_entries, standard_items,
                   standard_tree, connection_items, include_discount_var,
                   include_added_var, custom_discount_var, shown, add_outcome>>

ProducedCustom(name, discount, doc) ==
    /\ pdf' = [generator |-> name, discount |-> discount] @@ doc
    /\ UNCHANGED <<standard_sort_dirs, invoice_vars, library_vars>>
    /\ UNCHANGED <<discount_csv, standard_entries, standard_items,
                   standard_tree, connection_items, include_discount_var,
                   include_added_var, custom_discount_var, shown, add_outcome>>

GeneratePdf ==
    Produced("generate_pdf", generate_pdf(pdf_items(standard_items)))

GeneratePdfWithAddedValue ==
    Produced("generate_pdf_with_added_value",
             generate_pdf_with_added_value(pdf_items(standard_items)))

GeneratePdfWithDiscount ==
    Produced("generate_pdf_with_discount",
             generate_pdf_with_discount(pdf_items(standard_items), discount_csv))

GeneratePdfWithCustomDiscount ==
    \E d \in CustomDiscounts :
        ProducedCustom("generate_pdf_with_custom_discount", d,
            generate_pdf_with_custom_discount(pdf_items(standard_items), d))

GeneratePdfWithDiscountAndAddedValue ==
    Produced("generate_pdf_with_discount_and_added_value",
             generate_pdf_with_discount_and_added_value(
                 pdf_items(standard_items), discount_csv))

GeneratePdfWithCustomDiscountAndAddedValue ==
    \E d \in CustomDiscounts :
        ProducedCustom("generate_pdf_with_custom_discount_and_added_value", d,
            generate_pdf_with_custom_discount_and_added_value(
                pdf_items(standard_items), d))

GenerateConnectionWithDiscount ==
    LET items == connection_items IN
        Produced("generate_connection_invoice_pdf_with_discount",
            generate_connection_invoice_pdf_with_discount(items, discount_csv))

GenerateConnectionWithCustomDiscount ==
    \E d \in CustomDiscounts :
      LET items == connection_items IN
        ProducedCustom("generate_connection_invoice_pdf_with_custom_discount", d,
            generate_connection_invoice_pdf_with_custom_discount(items, d))

GenerateConnectionWithDiscountAndAddedValue ==
    LET items == connection_items IN
        Produced("generate_connection_invoice_pdf_with_discount_and_added_value",
            generate_connection_invoice_pdf_with_discount_and_added_value(
                items, discount_csv))

GenerateConnectionWithCustomDiscountAndAddedValue ==
    \E d \in CustomDiscounts :
      LET items == connection_items IN
        ProducedCustom(
            "generate_connection_invoice_pdf_with_custom_discount_and_added_value", d,
            generate_connection_invoice_pdf_with_custom_discount_and_added_value(
                items, d))

\* InvoiceApp.on_toggle_discount: the option is flipped, the display redone
OnToggleDiscount ==
    /\ include_discount_var' = ~include_discount_var
    /\ shown' = update_subtotal(standard_items, include_discount_var',
                                custom_discount_var, include_added_var,
                                discount_csv)
    /\ UNCHANGED <<standard_sort_dirs, invoice_vars, library_vars>>
    /\ UNCHANGED <<discount_csv, standard_entries, standard_items,
                   standard_tree, connection_items, include_added_var,
                   custom_discount_var, add_outcome, pdf>>

NextCalc ==
    \/ GeneratePdf
    \/ GeneratePdfWithAddedValue
    \/ GeneratePdfWithDiscount
    \/ GeneratePdfWithCustomDiscount
    \/ GeneratePdfWithDiscountAndAddedValue
    \/ GeneratePdfWithCustomDiscountAndAddedValue
    \/ GenerateConnectionWithDiscount
    \/ GenerateConnectionWithCustomDiscount
    \/ GenerateConnectionWithDiscountAndAddedValue
    \/ GenerateConnectionWithCustomDiscountAndAddedValue
    \/ OnToggleDiscount

SpecCalc == InitCalc /\ [][NextCalc]_vars

---------------------------------------------------------------------------
(* The library on its own: the arguments of a call are drawn at the start  *)
(* and the functions of get_data.py and price_calculator.py are applied to *)
(* them, against the two reference tables and the schedule on file.        *)

\* the schedules above and one whose odd rows all lack a cell
LookupSchedules ==
    Schedules \cup
    { [exists |-> TRUE,
       rows |-> << <<"700", "6">>, <<"300">>, <<"100", "">>, <<"500", "4">>,
                   <<"", "9">> >>] }

SeriesArgs ==
    {[fn |-> "series", pipe_grade |-> g, pn |-> p, sdr |-> x] :
        g \in {"PE100", "pe100", "PE80", "PE63", "PE40", "PEX", ""},
        p \in {"10", "16", "12.5", "5", "4", "7", "x"},
        x \in {Num(17), Num(11), Num(9), Num(8)}}

WeightArgs ==
    {[fn |-> "weight", diameter |-> d, sdr |-> x, length |-> l,
      total_mass |-> m, price_per_kg |-> p] :
        d \in {Num(110), Num(90), Num(63), Num(50)},
        x \in {Num(17), Num(11), Num(9), Num(8)},
        l \in {Num(2), <<5, 2>>, Num(0), Num(-3)},
        m \in {Num(3), Num(0)},
        p \in {Num(5), Num(0)}}

DiscountArgs ==
    {[fn |-> "discount", order_price |-> o] :
        o \in {Num(0), Num(50), Num(100), Num(300), Num(800)}}

InitLookup ==
    /\ args \in SeriesArgs \cup WeightArgs \cup DiscountArgs
    /\ discount_csv \in
           IF args.fn = "discount" THEN LookupSchedules ELSE {DefaultSchedule}
    /\ call = [fn |-> "none"]
    /\ standard_sort_dirs = [col \in Columns |-> FALSE]
    /\ customer_entry = ""
    /\ counter_file = NoCounterFile
    /\ invoice_entry = "1"
    /\ standard_entries = BlankEntries
    /\ standard_items = <<>>
    /\ standard_tree = <<>>
    /\ connection_items = <<>>
    /\ include_discount_var = FALSE
    /\ include_added_var = FALSE
    /\ custom_discount_var = ""
    /\ shown = update_subtotal(<<>>, FALSE, "", FALSE, discount_csv)
    /\ add_outcome = [status |-> "none"]
    /\ pdf = [generator |-> "none"]

Returned(name, result) ==
    /\ call' = [fn |-> name, result |-> result]
    /\ UNCHANGED <<discount_csv, standard_entries, standard_items,
                   standard_tree, connection_items, include_discount_var,
                   include_added_var, custom_discount_var, shown, add_outcome,
                   pdf, standard_sort_dirs, invoice_vars, args>>

GetSdrFor ==
    /\ args.fn = "series"
    /\ Returned("get_sdr_for",
                get_sdr_for(pipe_series_sdr_csv, args.pipe_grade, args.pn))

GetPnFor ==
    /\ args.fn = "series"
    /\ Returned("get_pn_for",
                get_pn_for(pipe_series_sdr_csv, args.pipe_grade, args.sdr))

\* get_pn_for, get_sdr_for on its result, get_pn_for on that result
PnSdrPn ==
    /\ args.fn = "series"
    /\ \E pn \in {get_pn_for(pipe_series_sdr_csv, args.pipe_grade, args.sdr)} :
         \E sdr \in {IF pn.ok
                     THEN get_sdr_for_value(pipe_series_sdr_csv,
                                            args.pipe_grade, pn.val)
                     ELSE pn} :
              Returned("pn_sdr_pn",
                  [pn |-> pn, sdr |-> sdr,
                   back |-> IF sdr.ok
                            THEN get_pn_for(pipe_series_sdr_csv,
                                            args.pipe_grade, sdr.val)
                            ELSE sdr])

LoadWeightTable ==
    /\ args.fn = "weight"
    /\ Returned("load_weight_table",
                load_weight_table(DIN_pivot_csv, args.diameter, args.sdr))

CalculateTotalMass ==
    /\ args.fn = "weight"
    /\ Returned("calculate_total_mass",
                calculate_total_mass(args.length, args.diameter, args.sdr))

CalculatePrice ==
    /\ args.fn = "weight"
    /\ Returned("calculate_price",
                calculate_price(args.length, args.diameter, args.sdr,
                                args.price_per_kg))

CalculateLengthFromMass ==
    /\ args.fn = "weight"
    /\ Returned("calculate_length_from_mass",
                calculate_length_from_mass(args.total_mass, args.diameter,
                                           args.sdr))

CalculatePricePerKgFromTotal ==
    /\ args.fn = "weight"
    /\ \E total_price \in {Num(30), Num(0)} :
         Returned("calculate_price_per_kg_from_total",
             [total_price |-> total_price,
              price |-> calculate_price_per_kg_from_total(total_price,
                            args.length, args.diameter, args.sdr)])

\* the three lookups on the tables with a gap in the header
GappedLookups ==
    /\ args.fn = "series"
    /\ Returned("gapped_tables",
           [sdr |-> get_sdr_for(gapped_series_csv, args.pipe_grade, args.pn),
            pn |-> get_pn_for(gapped_series_csv, args.pipe_grade, args.sdr),
            weight |-> load_weight_table(gapped_DIN_csv, Num(110), args.sdr)])

\* calculate_total_mass, then calculate_length_from_mass on its result
MassThenLength ==
    /\ args.fn = "weight"
    /\ \E mass \in {calculate_total_mass(args.length, args.diameter,
                                          args.sdr)} :
         Returned("mass_then_length",
             [mass |-> mass,
              back |-> IF mass.ok
                       THEN calculate_length_from_mass(mass.val,
                                                       args.diameter, args.sdr)
                       ELSE mass])

GetDiscount ==
    /\ args.fn = "discount"
    /\ Returned("get_discount", get_discount(discount_csv, args.order_price))

\* the loader and loop of the tiered generators on the same file
TieredDiscount ==
    /\ args.fn = "discount"
    /\ Returned("tiered_discount",
                [thresholds |-> load_thresholds(discount_csv),
                 amount |-> tiered_discount(discount_csv, args.order_price)])

\* the tiered loops of create_pdf and of create_invoice_EN on the same
\* thresholds (the loaders of the two modules are the same text)
TieredDiscountCopies ==
    /\ args.fn = "discount"
    /\ Returned("tiered_discount_copies",
           [create_pdf |-> tiered_discount(discount_csv, args.order_price),
            EN_with_discount |->
                EN_tiered_discount_from(load_thresholds(discount_csv),
                    args.order_price, 1,
                    Raise("UnboundLocalError",
                          "local variable 'segment' referenced before assignment")),
            EN_with_discount_and_added_value |->
                EN_tiered_discount_and_added_value_from(
                    load_thresholds(discount_csv), args.order_price, 1)])

\* the loader and loop of update_subtotal on the same file
PreviewDiscount ==
    /\ args.fn = "discount"
    /\ Returned("update_subtotal",
                [thresholds |-> update_subtotal_thresholds(discount_csv),
                 amount |-> update_subtotal_tiered(discount_csv,
                                                   args.order_price)])

NextLookup ==
    \/ GetSdrFor
    \/ GetPnFor
    \/ PnSdrPn
    \/ LoadWeightTable
    \/ CalculateTotalMass
    \/ CalculatePrice
    \/ CalculateLengthFromMass
    \/ CalculatePricePerKgFromTotal
    \/ TieredDiscountCopies
    \/ GappedLookups
    \/ MassThenLength
    \/ GetDiscount
    \/ TieredDiscount
    \/ PreviewDiscount

SpecLookup == InitLookup /\ [][NextLookup]_vars

---------------------------------------------------------------------------
(* The item list: items are added, removed, sorted and cleared, the options *)
(* are toggled and invoices are generated from the list.                   *)

MaxInvoiceNumber == 2    \* greatest invoice number generated

\* int() and str() on the texts of the invoice number widget
IntTable ==
    ("0" :> 0) @@ ("1" :> 1) @@ ("2" :> 2) @@ ("3" :> 3) @@ ("4" :> 4) @@
    ("5" :> 5) @@ ("6" :> 6)
IsIntText(t) == t \in DOMAIN IntTable
int(t) == IntTable[t]
str(n) == CHOOSE t \in DOMAIN IntTable : IntTable[t] = n

\* the forms filled in: 2 m at a total of 300, 2.5 m at a total of 50
ListForms ==
    {[grade |-> "PE100", pn |-> "", sdr |-> "17", diameter |-> "110",
      length |-> l, total_mass |-> "", price_per_kg |-> "",
      total_price |-> t] : <<l, t>> \in {<<"2", "300">>, <<"2.5", "50">>}}

\* the headings clicked (numeric columns, and the row number)
SortColumns == {"no", "total_price"}

FillForm ==
    \E e \in ListForms :
        /\ e # standard_entries
        /\ standard_entries' = e
        /\ add_outcome' = [status |-> "none"]
        /\ UNCHANGED <<standard_sort_dirs, invoice_vars, library_vars>>
        /\ UNCHANGED <<discount_csv, standard_items, standard_tree,
                       connection_items, include_discount_var, include_added_var,
                       custom_discount_var, shown, pdf>>

\* the customer name is typed; each key release redoes the display
EditCustomer ==
    /\ customer_entry' = "ACME"
    /\ customer_entry # "ACME"
    /\ shown' = update_subtotal(standard_items, include_discount_var,
                                custom_discount_var, include_added_var,
                                discount_csv)
    /\ UNCHANGED <<standard_sort_dirs, invoice_entry, counter_file,
                   library_vars>>
    /\ UNCHANGED <<discount_csv, standard_entries, standard_items,
                   standard_tree, connection_items, include_discount_var,
                   include_added_var, custom_discount_var, add_outcome, pdf>>

\* seq without the positions in gone
RECURSIVE without(_, _, _)
without(seq, gone, k) ==
    IF k > Len(seq) THEN <<>>
    ELSE (IF k \in gone THEN <<>> ELSE <<seq[k]>>) \o without(seq, gone, k + 1)

refresh_indices(tree) == [k \in 1..Len(tree) |-> [tree[k] EXCEPT !.no = k]]

\* InvoiceApp.remove_item with the rows at the positions in selected
\* selected (or focused); without a selection a warning is shown
RemoveItem ==
    \E selected \in SUBSET (1..Len(standard_tree)) :
        IF selected = {}
        THEN UNCHANGED vars
        ELSE /\ standard_tree' =
                    refresh_indices(without(standard_tree, selected, 1))
             /\ standard_items' = without(standard_items, selected, 1)
             /\ shown' = update_subtotal(standard_items', include_discount_var,
                                         custom_discount_var, include_added_var,
                                         discount_csv)
             /\ UNCHANGED <<standard_sort_dirs, invoice_vars, library_vars>>
             /\ UNCHANGED <<discount_csv, standard_entries, connection_items,
                            include_discount_var, include_added_var,
                            custom_discount_var, add_outcome, pdf>>

\* InvoiceApp.clear_all: the invoice number and the discount option stay
ClearAll ==
    /\ customer_entry' = ""
    /\ standard_entries' = BlankEntries
    /\ standard_items' = <<>>
    /\ standard_tree' = <<>>
    /\ include_added_var' = FALSE
    /\ shown' = update_subtotal(<<>>, include_discount_var,
                                custom_discount_var, FALSE, discount_csv)
    /\ UNCHANGED <<standard_sort_dirs, invoice_entry, counter_file,
                   library_vars>>
    /\ UNCHANGED <<discount_csv, connection_items, include_discount_var,
                   custom_discount_var, add_outcome, pdf>>

\* list(items)[::-1]
RECURSIVE reversed(_)
reversed(seq) ==
    IF seq = <<>> THEN <<>> ELSE Append(reversed(Tail(seq)), Head(seq))

\* sorted() is stable, also with reverse=True: an item goes before the
\* first one that sorts strictly after it
RECURSIVE sorted_insert(_, _, _, _)
sorted_insert(done, item, col, reverse) ==
    IF done = <<>> THEN <<item>>
    ELSE IF (IF reverse THEN RLt(Head(done)[col], item[col])
                        ELSE RLt(item[col], Head(done)[col]))
         THEN <<item>> \o done
         ELSE <<Head(done)>> \o sorted_insert(Tail(done), item, col, reverse)

RECURSIVE sorted(_, _, _)
sorted(items, col, reverse) ==
    IF items = <<>> THEN <<>>
    ELSE sorted_insert(sorted(SubSeq(items, 1, Len(items) - 1), col, reverse),
                       items[Len(items)], col, reverse)

\* variant: the sorted list is rebuilt from the values the rows display
sort_by_items_as_displayed(items, col, reverse) ==
    LET shown_items ==
            [k \in 1..Len(items) |->
                [items[k] EXCEPT
                    !.price_per_kg = Num(Trunc(items[k].price_per_kg)),
                    !.total_price = Num(Trunc(items[k].total_price))]]
    IN  IF col = "no"
        THEN IF reverse THEN reversed(shown_items) ELSE shown_items
        ELSE sorted(shown_items, col, reverse)

\* sort_by: the new standard_items
sort_by_items(items, col, reverse) ==
    IF col = "no"
    THEN IF reverse THEN reversed(items) ELSE items
    ELSE sorted(items, col, reverse)

\* InvoiceApp.sort_by: the list is reordered, the rows are rebuilt from it
\* and the direction of the column is flipped for the next click
SortBy ==
    \E col \in SortColumns :
        /\ standard_items' =
               sort_by_items(standard_items, col, standard_sort_dirs[col])
        /\ standard_tree' = tree_rows(standard_items')
        /\ standard_sort_dirs' =
               [standard_sort_dirs EXCEPT ![col] = ~standard_sort_dirs[col]]
        /\ UNCHANGED <<invoice_vars, library_vars>>
        /\ UNCHANGED <<discount_csv, standard_entries, connection_items,
                       include_discount_var, include_added_var,
                       custom_discount_var, shown, add_outcome, pdf>>

\* InvoiceApp.on_toggle_added: the option is flipped, the display redone
OnToggleAdded ==
    /\ include_added_var' = ~include_added_var
    /\ shown' = update_subtotal(standard_items, include_discount_var,
                                custom_discount_var, include_added_var',
                                discount_csv)
    /\ UNCHANGED <<standard_sort_dirs, invoice_vars, library_vars>>
    /\ UNCHANGED <<discount_csv, standard_entries, standard_items,
                   standard_tree, connection_items, include_discount_var,
                   custom_discount_var, add_outcome, pdf>>

\* variant: with a custom percentage the surcharge option is not consulted
generate_invoice_pdf_custom_plain(items, include_discount, custom, include_added, csv) ==
    IF include_discount
    THEN IF custom # ""
         THEN [generator |-> "generate_pdf_with_custom_discount",
               discount |-> IF IsFloatText(custom) THEN float(custom)
                            ELSE Zero]
              @@ generate_pdf_with_custom_discount(
                     items,
                     IF IsFloatText(custom) THEN float(custom) ELSE Zero)
         ELSE IF include_added
              THEN [generator |-> "generate_pdf_with_discount_and_added_value"]
                   @@ generate_pdf_with_discount_and_added_value(items, csv)
              ELSE [generator |-> "generate_pdf_with_discount"]
                   @@ generate_pdf_with_discount(items, csv)
    ELSE IF include_added
         THEN [generator |-> "generate_pdf_with_added_value"]
              @@ generate_pdf_with_added_value(items)
         ELSE [generator |-> "generate_pdf"] @@ generate_pdf(items)

\* generate_invoice: the generator picked by the options, and its document
generate_invoice_pdf(items, include_discount, custom, include_added, csv) ==
    IF include_discount
    THEN IF custom # ""
         THEN IF include_added
              THEN [generator |->
                        "generate_pdf_with_custom_discount_and_added_value",
                    discount |-> IF IsFloatText(custom) THEN float(custom)
                                 ELSE Zero]
                   @@ generate_pdf_with_custom_discount_and_added_value(
                          items,
                          IF IsFloatText(custom) THEN float(custom) ELSE Zero)
              ELSE [generator |-> "generate_pdf_with_custom_discount",
                    discount |-> IF IsFloatText(custom) THEN float(custom)
                                 ELSE Zero]
                   @@ generate_pdf_with_custom_discount(
                          items,
                          IF IsFloatText(custom) THEN float(custom) ELSE Zero)
         ELSE IF include_added
              THEN [generator |-> "generate_pdf_with_discount_and_added_value"]
                   @@ generate_pdf_with_discount_and_added_value(items, csv)
              ELSE [generator |-> "generate_pdf_with_discount"]
                   @@ generate_pdf_with_discount(items, csv)
    ELSE IF include_added
         THEN [generator |-> "generate_pdf_with_added_value"]
              @@ generate_pdf_with_added_value(items)
         ELSE [generator |-> "generate_pdf"] @@ generate_pdf(items)

\* generate_invoice: the number of the invoice, from the widget or, when
\* the widget is blank, one more than the number on record
invoice_number(entry, file) ==
    IF entry # "" THEN int(entry)
    ELSE (IF file.exists THEN file.counter ELSE 0) + 1

\* variant: the number on record is only ever raised
counter_to_record_max(number, file) ==
    IF file.exists /\ file.counter > number THEN file.counter ELSE number

\* generate_invoice: new_highest_for_record
counter_to_record(number, file) == number

\* InvoiceApp.generate_invoice: without items, without a customer or with
\* an invoice number that is no integer a box is shown and nothing else
\* happens; otherwise the number is written to the counter file, the
\* widget proposes the next number and the PDF generator is called, which
\* produces the document or raises (an error box is shown then)
GenerateInvoice ==
    IF \/ standard_items = <<>>
       \/ customer_entry = ""
       \/ (invoice_entry # "" /\ ~IsIntText(invoice_entry))
    THEN UNCHANGED vars
    ELSE /\ invoice_number(invoice_entry, counter_file) <= MaxInvoiceNumber
         /\ counter_file' =
                [exists |-> TRUE,
                 counter |->
                     counter_to_record(
                         invoice_number(invoice_entry, counter_file),
                         counter_file)]
         /\ invoice_entry' = str(counter_file'.counter + 1)
         /\ \E raised \in BOOLEAN :
                pdf' = IF raised THEN [generator |-> "failed"]
                       ELSE generate_invoice_pdf(pdf_items(standard_items),
                                                 include_discount_var,
                                                 custom_discount_var,
                                                 include_added_var,
                                                 discount_csv)
         /\ UNCHANGED <<standard_sort_dirs, customer_entry, library_vars>>
         /\ UNCHANGED <<discount_csv, standard_entries, standard_items,
                        standard_tree, connection_items, include_discount_var,
                        include_added_var, custom_discount_var, shown,
                        add_outcome>>

\* the forms of ListForms hold finite numbers: add_item always can write
\* the row and the displays
NextList ==
    \/ FillForm
    \/ EditCustomer
    \/ AddItemOk
    \/ AddItemError
    \/ RemoveItem
    \/ ClearAll
    \/ SortBy
    \/ OnToggleAdded
    \/ GenerateInvoice

SpecList == Init /\ [][NextList]_vars

---------------------------------------------------------------------------
(* Invoices: the item list is drawn at the start; the options, the custom  *)
(* discount, the customer and the invoice number are edited and invoices   *)
(* are generated.                                                          *)

\* InvoiceApp.validate_custom_discount: blank, or a number from 1 to 100
validate_custom_discount(P) ==
    \/ P = ""
    \/ /\ IsFloatText(P)
       /\ RLe(Num(1), float(P))
       /\ RLe(float(P), Hundred)

InitInvoice ==
    /\ StartOfSession
    /\ discount_csv \in Schedules
    /\ standard_entries = BlankEntries
    /\ standard_items \in PricedItemLists \cup {<<>>}
    /\ standard_tree = tree_rows(standard_items)
    /\ connection_items = <<>>
    /\ include_discount_var = FALSE
    /\ include_added_var = FALSE
    /\ custom_discount_var = ""
    /\ shown = update_subtotal(standard_items, FALSE, "", FALSE, discount_csv)
    /\ add_outcome = [status |-> "none"]
    /\ pdf = [generator |-> "none"]

\* the custom discount is typed: the widget refuses a text that does not
\* validate; each key release redoes the display
EditCustomDiscount ==
    \E P \in {"", "0", "2.5", "100", "100.01", "x"} :
        /\ P # custom_discount_var
        /\ validate_custom_discount(P)
        /\ custom_discount_var' = P
        /\ shown' = update_subtotal(standard_items, include_discount_var, P,
                                    include_added_var, discount_csv)
        /\ UNCHANGED <<standard_sort_dirs, invoice_vars, library_vars>>
        /\ UNCHANGED <<discount_csv, standard_entries, standard_items,
                       standard_tree, connection_items, include_discount_var,
                       include_added_var, add_outcome, pdf>>

\* the invoice number is typed: blank, no integer, or a number
EditInvoiceEntry ==
    \E t \in {"", "x", "1"} :
        /\ t # invoice_entry
        /\ invoice_entry' = t
        /\ UNCHANGED <<standard_sort_dirs, customer_entry, counter_file,
                       library_vars>>
        /\ UNCHANGED <<discount_csv, standard_entries, standard_items,
                       standard_tree, connection_items, include_discount_var,
                       include_added_var, custom_discount_var, shown,
                       add_outcome, pdf>>

NextInvoice ==
    \/ OnToggleDiscount
    \/ OnToggleAdded
    \/ EditCustomDiscount
    \/ EditCustomer
    \/ EditInvoiceEntry
    \/ GenerateInvoice

SpecInvoice == InitInvoice /\ [][NextInvoice]_vars

---------------------------------------------------------------------------
(* Claims about the discount and surcharge arithmetic (under SpecCalc).    *)

TieredGenerators ==
    {"generate_pdf_with_discount",
     "generate_pdf_with_discount_and_added_value",
     "generate_connection_invoice_pdf_with_discount",
     "generate_connection_invoice_pdf_with_discount_and_added_value"}

CustomGenerators ==
    {"generate_pdf_with_custom_discount",
     "generate_pdf_with_custom_discount_and_added_value",
     "generate_connection_invoice_pdf_with_custom_discount",
     "generate_connection_invoice_pdf_with_custom_discount_and_added_value"}

DiscountAndAddedValueGenerators ==
    {"generate_pdf_with_discount_and_added_value",
     "generate_pdf_with_custom_discount_and_added_value",
     "generate_connection_invoice_pdf_with_discount_and_added_value",
     "generate_connection_invoice_pdf_with_custom_discount_and_added_value"}

\* the part of [0, subtotal] lying between lo and hi, for 0 <= lo <= hi
PartBetween(subtotal, lo, hi) ==
    RMax(Zero, RSub(RMin(subtotal, hi), RMin(subtotal, lo)))

\* sum over the brackets of (part of the subtotal in the bracket) x pct / 100
RECURSIVE ProgressiveBracketSum(_, _, _)
ProgressiveBracketSum(schedule, subtotal, i) ==
    IF i > Len(schedule) THEN Zero
    ELSE LET hi == IF i < Len(schedule) THEN schedule[i + 1][1] ELSE subtotal
             part == PartBetween(subtotal, schedule[i][1], hi)
         IN  RAdd(RDiv(RMul(part, schedule[i][2]), Hundred),
                  ProgressiveBracketSum(schedule, subtotal, i + 1))

ExampleSchedule ==
    << <<Num(0), Num(0)>>, <<Num(100), Num(2)>>,
       <<Num(500), Num(4)>>, <<Num(700), Num(6)>> >>

\* C1: the tiered discount of a generated document is the progressive
\* bracket sum over the schedule (file rows sorted ascending behind the
\* implicit (0, 0) bracket); it is 0 when the subtotal is not above the
\* first real threshold, and 22 for the example schedule at subtotal 800.
C1_TieredIsProgressiveSum ==
    pdf.generator \in TieredGenerators =>
        LET schedule == load_thresholds(discount_csv)
            subtotal == pdf.total_price_all
        IN  /\ pdf.discount_amount =
                   ProgressiveBracketSum(schedule, subtotal, 1)
            /\ (Len(schedule) >= 2 /\ RLe(subtotal, schedule[2][1]))
                   => pdf.discount_amount = Zero
            /\ (schedule = ExampleSchedule /\ subtotal = Num(800))
                   => pdf.discount_amount = Num(22)

C1_Witness ==
    /\ pdf.generator = "generate_pdf_with_discount"
    /\ load_thresholds(discount_csv) = ExampleSchedule
    /\ pdf.total_price_all = Num(800)
    /\ pdf.discount_amount = Num(22)

\* C2: in every generator applying a discount and the surcharge, the final
\* total is (subtotal - discount) x 1.10; with a non-zero discount it is
\* not subtotal x 1.10 - discount.
C2_SurchargeOnNet ==
    pdf.generator \in DiscountAndAddedValueGenerators =>
        LET net == RSub(pdf.total_price_all, pdf.discount_amount)
        IN  /\ pdf.final_total = RMul(net, <<11, 10>>)
            /\ pdf.added_value = RDiv(net, Num(10))
            /\ pdf.discount_amount # Zero =>
                   pdf.final_total #
                       RSub(RMul(pdf.total_price_all, <<11, 10>>),
                            pdf.discount_amount)

C2_Witness ==
    /\ pdf.generator = "generate_pdf_with_discount_and_added_value"
    /\ pdf.total_price_all = Num(800)
    /\ pdf.discount_amount = Num(22)
    /\ pdf.final_total = <<4279, 5>>

\* C3: a custom discount d <= 100 is a percentage of the subtotal (d = 100
\* takes the whole subtotal), a custom discount d > 100 is the amount itself
\* (d = 100.01 gives 100.01).
C3_CustomDiscountBoundary ==
    pdf.generator \in CustomGenerators =>
        /\ RLe(pdf.discount, Hundred) =>
               RMul(pdf.discount_amount, Hundred) =
                   RMul(pdf.total_price_all, pdf.discount)
        /\ RLt(Hundred, pdf.discount) => pdf.discount_amount = pdf.discount
        /\ pdf.discount = Hundred => pdf.discount_amount = pdf.total_price_all
        /\ pdf.discount = <<10001, 100>> =>
               pdf.discount_amount = <<10001, 100>>

C3_Witness ==
    /\ pdf.generator = "generate_connection_invoice_pdf_with_custom_discount"
    /\ pdf.discount = Hundred
    /\ pdf.total_price_all = Num(300)
    /\ pdf.discount_amount = Num(300)

\* C4: with a custom discount d >= 0 the discount amount never exceeds the
\* subtotal, so the net amount and the final total are never negative.
C4_CustomDiscountWithinSubtotal ==
    (pdf.generator \in CustomGenerators /\ RLe(Zero, pdf.discount)) =>
        /\ RLe(pdf.discount_amount, pdf.total_price_all)
        /\ RLe(Zero, pdf.final_total)

\* every percentage of the schedule lies in 0..100
PercentagesInRange(schedule) ==
    \A i \in 1..Len(schedule) :
        RLe(Zero, schedule[i][2]) /\ RLe(schedule[i][2], Hundred)

\* C5: with percentages in 0..100 and a subtotal >= 0 the tiered discount
\* lies between 0 and the subtotal.
C5_TieredWithinSubtotal ==
    (/\ pdf.generator \in TieredGenerators
     /\ PercentagesInRange(load_thresholds(discount_csv))
     /\ RLe(Zero, pdf.total_price_all)) =>
        /\ RLe(Zero, pdf.discount_amount)
        /\ RLe(pdf.discount_amount, pdf.total_price_all)

\* the bound is met: a 100 % bracket from 0 takes the whole subtotal
C5_Witness ==
    /\ pdf.generator = "generate_pdf_with_discount"
    /\ PercentagesInRange(load_thresholds(discount_csv))
    /\ pdf.total_price_all = Num(300)
    /\ pdf.discount_amount = Num(300)

ProbeSubtotals ==
    {Num(0), Num(50), Num(100), Num(101), Num(300), Num(499), Num(500),
     Num(650), Num(700), Num(800), Num(1200), Num(2000)}

\* C6: for the schedule on file the tiered discount is non-decreasing in
\* the subtotal, in the generators and in the amount shown on screen: a
\* smaller subtotal never gets a larger discount, a larger one never a
\* smaller discount.
C6_TieredMonotone ==
    /\ pdf.generator \in TieredGenerators =>
           \A a \in ProbeSubtotals :
               /\ RLe(a, pdf.total_price_all) =>
                      RLe(tiered_discount(discount_csv, a), pdf.discount_amount)
               /\ RLe(pdf.total_price_all, a) =>
                      RLe(pdf.discount_amount, tiered_discount(discount_csv, a))
    /\ (include_discount_var /\ custom_discount_var = "") =>
           LET subtotal == sum_total_price(standard_items)
           IN  \A a \in ProbeSubtotals :
                   /\ RLe(a, subtotal) =>
                          RLe(update_subtotal_tiered(discount_csv, a),
                              shown.discount_amount)
                   /\ RLe(subtotal, a) =>
                          RLe(shown.discount_amount,
                              update_subtotal_tiered(discount_csv, a))

C6_Witness ==
    /\ pdf.generator = "generate_pdf_with_discount"
    /\ pdf.total_price_all = Num(600)
    /\ RLt(tiered_discount(discount_csv, Num(500)), pdf.discount_amount)
    /\ RLt(pdf.discount_amount, tiered_discount(discount_csv, Num(650)))
    /\ include_discount_var
    /\ RLt(update_subtotal_tiered(discount_csv, Num(500)), shown.discount_amount)

---------------------------------------------------------------------------
(* Claims about add_item (under Spec).  add_outcome holds the form as it   *)
(* was read by the last call and the item that call stored.                *)

Added == add_outcome.status = "added"

\* C7: a supplied SDR is used as given and the PN is looked up with
\* get_pn_for only when the PN is blank (a supplied PN is stored unchanged,
\* even when it disagrees with the SDR); with a blank SDR and a supplied PN
\* the SDR is get_sdr_for(grade, PN); neither is blank in the stored item.
C7_SdrPnFirstWins ==
    Added =>
        LET e == add_outcome.entries
            item == add_outcome.item
        IN  /\ e.sdr # "" =>
                /\ item.sdr = float(e.sdr)
                /\ e.pn # "" => item.pn = PnText(e.pn)
                /\ e.pn = "" =>
                       item.pn = PnFloat(get_pn_for(pipe_series_sdr_csv,
                                                    e.grade, float(e.sdr)).val)
            /\ e.sdr = "" =>
                /\ e.pn # ""
                /\ item.pn = PnText(e.pn)
                /\ item.sdr = get_sdr_for(pipe_series_sdr_csv,
                                          e.grade, e.pn).val
            \* the table behind the lookups: PE100 has PN 10 at SDR 17 and
            \* PN 16 at SDR 11
            /\ (e.sdr = "17" /\ e.pn = "") => item.pn = PnFloat(Num(10))
            /\ (e.sdr = "" /\ e.pn = "16") => item.sdr = Num(11)
            /\ item.pn # PnText("")

C7_Witness ==
    /\ Added
    /\ add_outcome.entries.sdr = "17"
    /\ add_outcome.entries.pn = "16"
    /\ add_outcome.item.sdr = Num(17)
    /\ add_outcome.item.pn = PnText("16")
    /\ get_pn_for(pipe_series_sdr_csv, "PE100", Num(17)) = Ok(Num(10))

\* C8: a supplied length wins: total mass = length x mass per length and a
\* supplied mass is discarded; only with a blank length is the supplied mass
\* kept and length = mass / mass per length.
C8_LengthPreferred ==
    Added =>
        LET e == add_outcome.entries
            item == add_outcome.item
            w == load_weight_table(DIN_pivot_csv, item.diameter, item.sdr).val
        IN  /\ e.length # "" =>
                /\ item.length = float(e.length)
                /\ item.total_mass = RMul(float(e.length), w)
            /\ e.length = "" =>
                /\ e.total_mass # ""
                /\ item.total_mass = float(e.total_mass)
                /\ item.length = RDiv(float(e.total_mass), w)

C8_Witness ==
    /\ Added
    /\ add_outcome.entries.length = "2"
    /\ add_outcome.entries.total_mass = "3"
    /\ add_outcome.item.weight_per_m = <<7, 4>>
    /\ add_outcome.item.total_mass = <<7, 2>>

\* C9: a supplied total price is stored exactly; next to it a supplied unit
\* price is stored as given, a blank one becomes total price / total mass;
\* only with a blank total price is total price = unit price x total mass.
C9_TotalPriceAuthoritative ==
    Added =>
        LET e == add_outcome.entries
            item == add_outcome.item
        IN  /\ e.total_price # "" =>
                /\ item.total_price = float(e.total_price)
                /\ e.price_per_kg # "" =>
                       item.price_per_kg = float(e.price_per_kg)
                /\ e.price_per_kg = "" =>
                       item.price_per_kg =
                           RDiv(float(e.total_price), item.total_mass)
            /\ e.total_price = "" =>
                /\ e.price_per_kg # ""
                /\ item.price_per_kg = float(e.price_per_kg)
                /\ item.total_price =
                       RMul(float(e.price_per_kg), item.total_mass)

C9_Witness ==
    /\ Added
    /\ add_outcome.entries.price_per_kg = "5"
    /\ add_outcome.entries.total_price = "30"
    /\ add_outcome.item.total_mass = <<7, 2>>
    /\ add_outcome.item.price_per_kg = Num(5)
    /\ add_outcome.item.total_price = Num(30)

MassConsistent(item) ==
    item.total_mass = RMul(item.weight_per_m, item.length)
PriceConsistent(item) ==
    item.total_price = RMul(item.price_per_kg, item.total_mass)

\* C10 as stated: every stored item has total_price = price_per_kg x
\* total_mass and total_mass = weight_per_m x length.
C10_ItemsConsistent ==
    \A k \in 1..Len(standard_items) :
        MassConsistent(standard_items[k]) /\ PriceConsistent(standard_items[k])

\* C10 as amended: every stored item has total_mass = weight_per_m x length;
\* an item added with only one of the two price widgets filled has
\* total_price = price_per_kg x total_mass; an item added with both filled
\* stores the two typed values.
C10_ItemsConsistentUnlessBothPrices ==
    /\ \A k \in 1..Len(standard_items) : MassConsistent(standard_items[k])
    /\ Added =>
           LET e == add_outcome.entries
               item == add_outcome.item
           IN  /\ item = standard_items[Len(standard_items)]
               /\ (e.price_per_kg = "" \/ e.total_price = "") =>
                      PriceConsistent(item)
               /\ (e.price_per_kg # "" /\ e.total_price # "") =>
                      /\ item.price_per_kg = float(e.price_per_kg)
                      /\ item.total_price = float(e.total_price)

C10_Witness ==
    /\ Len(standard_items) = 2
    /\ ~PriceConsistent(standard_items[1])
    /\ Added
    /\ add_outcome.entries.length = ""
    /\ add_outcome.entries.price_per_kg = ""
    /\ add_outcome.item.length = <<12, 7>>
    /\ add_outcome.item.price_per_kg = Num(10)
    /\ PriceConsistent(standard_items[2])

\* the steps of add_item before the length / mass pair, on the form e
ResolvesWeight(e) ==
    /\ IsFloatText(e.diameter)
    /\ add_item_sdr_pn(e).ok
    /\ load_weight_table(DIN_pivot_csv, float(e.diameter),
                         add_item_sdr_pn(e).val.sdr).ok

ResolvesQuantity(e) ==
    /\ ResolvesWeight(e)
    /\ add_item_quantity(e, float(e.diameter), add_item_sdr_pn(e).val.sdr).ok

---------------------------------------------------------------------------
(* Claims about the library functions (under SpecLookup).  The tables are  *)
(* read here by header: column j of a table is the column under header     *)
(* cell j, and the cell of a row in it is the row's j-th cell.             *)

\* the columns whose header cell is the number x
ColumnsOf(rows, x) ==
    {j \in 2..Len(rows[1]) : IsFloatText(rows[1][j]) /\ float(rows[1][j]) = x}

\* the j-th cell of a row, blank past its end
CellAt(row, j) == IF j <= Len(row) THEN row[j] ELSE ""

\* the lines of DIN_pivot.csv for a diameter
DiameterLines(x) ==
    {i \in 2..Len(DIN_pivot_csv) :
        /\ Len(DIN_pivot_csv[i]) >= 1
        /\ IsFloatText(DIN_pivot_csv[i][1])
        /\ float(DIN_pivot_csv[i][1]) = x}

\* C12: load_weight_table returns a mass-per-length only when the SDR is a
\* header column, the diameter is a row and the cell where they meet holds
\* a number, and then it returns that number; it fails with KeyError when
\* the SDR is no column or the diameter is no row, and with ValueError when
\* the cell is empty or is no number; no value stands in for a missing
\* combination.
C12_WeightLookup ==
    call.fn = "load_weight_table" =>
        LET r == call.result
            cols == ColumnsOf(DIN_pivot_csv, args.sdr)
            lines == DiameterLines(args.diameter)
        IN  IF cols = {} \/ lines = {}
            THEN ~r.ok /\ r.exc = "KeyError"
            ELSE LET cell == CellAt(DIN_pivot_csv[FirstIn(lines)],
                                    FirstIn(cols))
                 IN  IF cell = "" \/ ~IsFloatText(cell)
                     THEN ~r.ok /\ r.exc = "ValueError"
                     ELSE r = Ok(float(cell))

\* diameter 90 has a row and SDR 9 a column, the cell is blank: ValueError
C12_Witness ==
    /\ call.fn = "load_weight_table"
    /\ args.diameter = Num(90)
    /\ args.sdr = Num(9)
    /\ ~call.result.ok
    /\ call.result.exc = "ValueError"

\* the lines of pipe_series_sdr.csv for a grade (a line without a grade is
\* no grade's row)
GradeLines(g) ==
    {i \in 2..Len(pipe_series_sdr_csv) :
        /\ Len(pipe_series_sdr_csv[i]) >= 1
        /\ pipe_series_sdr_csv[i][1] # ""
        /\ StripUpper(pipe_series_sdr_csv[i][1]) = StripUpper(g)}

\* the columns of a row whose cell is the number x
CellsEqual(row, x) ==
    {j \in 2..Len(row) : IsFloatText(row[j]) /\ float(row[j]) = x}

\* C13: for a numeric pn, get_sdr_for fails with KeyError when the grade
\* has no row or no cell of the grade's row equals pn; get_pn_for fails
\* with KeyError when the SDR is no header value or the grade has no row,
\* and with ValueError when the SDR column exists and the grade's cell in
\* it is empty; no value is returned in these cases.
C13_SeriesLookupErrors ==
    LET r == call.result
        lines == GradeLines(args.pipe_grade)
    IN  /\ (call.fn = "get_sdr_for" /\ IsFloatText(args.pn)) =>
              ((\/ lines = {}
                \/ CellsEqual(pipe_series_sdr_csv[FirstIn(lines)],
                              float(args.pn)) = {})
                  => (~r.ok /\ r.exc = "KeyError"))
        /\ call.fn = "get_pn_for" =>
              LET cols == ColumnsOf(pipe_series_sdr_csv, args.sdr)
              IN  IF cols = {} \/ lines = {}
                  THEN ~r.ok /\ r.exc = "KeyError"
                  ELSE CellAt(pipe_series_sdr_csv[FirstIn(lines)],
                              FirstIn(cols)) = ""
                          => (~r.ok /\ r.exc = "ValueError")

\* PE100 has a row and SDR 9 a column, the cell is blank: ValueError
C13_Witness ==
    /\ call.fn = "get_pn_for"
    /\ args.pipe_grade = "PE100"
    /\ args.sdr = Num(9)
    /\ ~call.result.ok
    /\ call.result.exc = "ValueError"

\* the PN cell of grade g under SDR s is defined: s is a column, g has a
\* row and the row's cell in that column holds a number
PnDefined(g, s) ==
    /\ ColumnsOf(pipe_series_sdr_csv, s) # {}
    /\ GradeLines(g) # {}
    /\ IsFloatText(CellAt(pipe_series_sdr_csv[FirstIn(GradeLines(g))],
                          FirstIn(ColumnsOf(pipe_series_sdr_csv, s))))

\* the PN cell of grade g under SDR s
PnCell(g, s) ==
    float(CellAt(pipe_series_sdr_csv[FirstIn(GradeLines(g))],
                 FirstIn(ColumnsOf(pipe_series_sdr_csv, s))))

\* C14: for every grade g and SDR s whose PN cell is defined,
\* get_pn_for(g, s) succeeds, get_sdr_for on its result succeeds, and
\* get_pn_for on that SDR gives the PN of get_pn_for(g, s) again.
C14_PnRoundTrip ==
    (call.fn = "pn_sdr_pn" /\ PnDefined(args.pipe_grade, args.sdr)) =>
        /\ call.result.pn = Ok(PnCell(args.pipe_grade, args.sdr))
        /\ call.result.sdr.ok
        /\ call.result.back = call.result.pn

\* PE80 at SDR 9: PN 12.5, resolved to SDR 11, whose PN is 12.5 again
C14_Witness ==
    /\ call.fn = "pn_sdr_pn"
    /\ args.pipe_grade = "PE80"
    /\ args.sdr = Num(9)
    /\ call.result.pn = Ok(<<25, 2>>)
    /\ call.result.sdr = Ok(Num(11))
    /\ call.result.back = Ok(<<25, 2>>)

\* C15 as stated: for every grade g and SDR s whose PN cell is defined,
\* get_sdr_for(g, get_pn_for(g, s)) = s.
C15_SdrOfPnIsSdr ==
    (call.fn = "pn_sdr_pn" /\ PnDefined(args.pipe_grade, args.sdr)) =>
        call.result.sdr = Ok(args.sdr)

\* the SDRs of the columns left of column s in which the row of g holds
\* the PN it holds under s
EarlierSdrsOfSamePn(g, s) ==
    {float(pipe_series_sdr_csv[1][j]) :
        j \in {k \in CellsEqual(pipe_series_sdr_csv[FirstIn(GradeLines(g))],
                                PnCell(g, s)) :
                  k < FirstIn(ColumnsOf(pipe_series_sdr_csv, s))}}

\* C15 (amended): for every grade g and SDR s whose PN cell is defined,
\* get_sdr_for(g, get_pn_for(g, s)) is the SDR of the first column in which
\* the row of g holds that PN: it is s when no column left of s holds the
\* same PN, and otherwise the SDR of the leftmost such column.
C15_SdrOfPnIsFirstColumn ==
    (call.fn = "pn_sdr_pn" /\ PnDefined(args.pipe_grade, args.sdr)) =>
        LET g == args.pipe_grade
            firstcol == FirstIn(CellsEqual(
                            pipe_series_sdr_csv[FirstIn(GradeLines(g))],
                            PnCell(g, args.sdr)))
        IN  /\ call.result.sdr = Ok(float(pipe_series_sdr_csv[1][firstcol]))
            /\ (EarlierSdrsOfSamePn(g, args.sdr) = {}
                    <=> call.result.sdr = Ok(args.sdr))

\* PE80 holds PN 12.5 under SDR 11 and under SDR 9; asked from SDR 9 the
\* answer is SDR 11
C15_Witness ==
    /\ call.fn = "pn_sdr_pn"
    /\ args.pipe_grade = "PE80"
    /\ args.sdr = Num(9)
    /\ EarlierSdrsOfSamePn("PE80", Num(9)) = {Num(11)}
    /\ call.result.sdr = Ok(Num(11))

\* the weight table holds a number for diameter d under SDR s
WeightDefined(d, s) ==
    /\ ColumnsOf(DIN_pivot_csv, s) # {}
    /\ DiameterLines(d) # {}
    /\ IsFloatText(CellAt(DIN_pivot_csv[FirstIn(DiameterLines(d))],
                          FirstIn(ColumnsOf(DIN_pivot_csv, s))))

\* the number the weight table holds for diameter d under SDR s
WeightCell(d, s) ==
    float(CellAt(DIN_pivot_csv[FirstIn(DiameterLines(d))],
                 FirstIn(ColumnsOf(DIN_pivot_csv, s))))

\* C16: for every diameter and SDR for which the weight table holds a
\* positive mass per length, and every length > 0,
\* calculate_length_from_mass(calculate_total_mass(length, d, s), d, s) is
\* the length (exactly, the arithmetic being exact here).
C16_MassLengthInverse ==
    (/\ call.fn = "mass_then_length"
     /\ WeightDefined(args.diameter, args.sdr)
     /\ RLt(Zero, args.length)) =>
        (RLt(Zero, WeightCell(args.diameter, args.sdr))
            => /\ call.result.mass.ok
               /\ call.result.back = Ok(args.length))

\* 2.5 m of diameter 110 at SDR 11 (2.5 kg/m): 6.25 kg, and 2.5 m back
C16_Witness ==
    /\ call.fn = "mass_then_length"
    /\ args.diameter = Num(110)
    /\ args.sdr = Num(11)
    /\ args.length = <<5, 2>>
    /\ call.result.mass = Ok(<<25, 4>>)
    /\ call.result.back = Ok(<<5, 2>>)

\* C17: for every diameter and SDR for which the weight table holds a
\* number w, every length and every unit price p,
\* calculate_total_mass(length, d, s) = w x length and
\* calculate_price(length, d, s, p) = w x length x p.
C17_MassAndPrice ==
    (args.fn = "weight" /\ WeightDefined(args.diameter, args.sdr)) =>
        /\ call.fn = "calculate_total_mass" =>
              call.result = Ok(RMul(WeightCell(args.diameter, args.sdr),
                                    args.length))
        /\ call.fn = "calculate_price" =>
              call.result = Ok(RMul(RMul(WeightCell(args.diameter, args.sdr),
                                         args.length),
                                    args.price_per_kg))

\* 2 m of diameter 110 at SDR 17 (1.75 kg/m) at 5 per kg: 17.5
C17_Witness ==
    /\ call.fn = "calculate_price"
    /\ args.diameter = Num(110)
    /\ args.sdr = Num(17)
    /\ args.length = Num(2)
    /\ args.price_per_kg = Num(5)
    /\ call.result = Ok(<<35, 2>>)

\* the rows of a schedule file that hold a threshold and a percentage
GoodRows(csv) ==
    {i \in 1..Len(csv.rows) : /\ Len(csv.rows[i]) >= 2
                              /\ IsFloatText(csv.rows[i][1])
                              /\ IsFloatText(csv.rows[i][2])}

GoodPairs(csv) ==
    {<<float(csv.rows[i][1]), float(csv.rows[i][2])>> : i \in GoodRows(csv)}

\* pct is what a single-rate step lookup over the pairs gives for price
StepLookup(pairs, price, pct) ==
    LET reached == {e \in pairs : RLe(e[1], price)}
    IN  IF reached = {} THEN pct = Zero
        ELSE \E e \in reached : /\ \A f \in reached : RLe(f[1], e[1])
                                /\ pct = e[2]

\* C18: get_discount is a single-rate step lookup: over a schedule of
\* thresholds and percentages, in any row order, it returns the percentage
\* attached to the greatest threshold <= price, and 0 when the price is
\* below the lowest threshold.
C18_StepLookup ==
    (call.fn = "get_discount" /\ discount_csv.exists) =>
        /\ (GoodRows(discount_csv) = 1..Len(discount_csv.rows)
             /\ discount_csv.rows # <<>>) => call.result.ok
        /\ call.result.ok =>
              StepLookup(GoodPairs(discount_csv), args.order_price,
                         call.result.val)

\* the file lists 700, 100, 500; an order of 800 gets the 6 of 700
C18_Witness ==
    /\ call.fn = "get_discount"
    /\ discount_csv.rows = << <<"700", "6">>, <<"100", "2">>, <<"500", "4">> >>
    /\ args.order_price = Num(800)
    /\ call.result = Ok(Num(6))

\* the thresholds a loader kept are those of the good rows, each once,
\* after the extra entries the loader puts in front
KeptGoodRows(csv, thresholds, extra) ==
    /\ Len(thresholds) = Cardinality(GoodRows(csv)) + Len(extra)
    /\ {thresholds[i] : i \in 1..Len(thresholds)}
           = GoodPairs(csv) \cup {extra[i] : i \in 1..Len(extra)}

\* C19 as stated: in every loader of the schedule (the tiered loader of
\* the PDF generators, the preview, get_discount) a row whose threshold or
\* percentage is no number is skipped and all other rows are kept and used;
\* loading never fails because of such a row.
C19_MalformedRowsSkippedEverywhere ==
    (args.fn = "discount" /\ discount_csv.exists) =>
        /\ call.fn = "tiered_discount" =>
              KeptGoodRows(discount_csv, call.result.thresholds,
                           << <<Zero, Zero>> >>)
        /\ call.fn = "update_subtotal" =>
              KeptGoodRows(discount_csv, call.result.thresholds, <<>>)
        /\ (call.fn = "get_discount" /\ GoodRows(discount_csv) # {}) =>
              /\ call.result.ok
              /\ StepLookup(GoodPairs(discount_csv), args.order_price,
                            call.result.val)

\* the rows get_discount stops at: two cells, none blank, not both numbers
RowsRejected(csv) ==
    {i \in 1..Len(csv.rows) : /\ Len(csv.rows[i]) >= 2
                              /\ csv.rows[i][1] # ""
                              /\ csv.rows[i][2] # ""
                              /\ i \notin GoodRows(csv)}

\* C19 (amended): the tiered loader of the PDF generators and the preview
\* skip a row whose threshold or percentage is no number and keep all
\* other rows; get_discount skips a row with fewer than two cells or with
\* a blank cell and looks the price up in the other rows, but fails with
\* ValueError on a row whose two non-blank cells are not both numbers.
C19_MalformedRows ==
    (args.fn = "discount" /\ discount_csv.exists) =>
        /\ call.fn = "tiered_discount" =>
              KeptGoodRows(discount_csv, call.result.thresholds,
                           << <<Zero, Zero>> >>)
        /\ call.fn = "update_subtotal" =>
              KeptGoodRows(discount_csv, call.result.thresholds, <<>>)
        /\ (call.fn = "get_discount" /\ GoodRows(discount_csv) # {}) =>
              IF RowsRejected(discount_csv) # {}
              THEN ~call.result.ok /\ call.result.exc = "ValueError"
              ELSE /\ call.result.ok
                   /\ StepLookup(GoodPairs(discount_csv), args.order_price,
                                 call.result.val)

\* a file with the row x,9 among good rows: get_discount raises ValueError
C19_Witness ==
    /\ call.fn = "get_discount"
    /\ RowsRejected(discount_csv) # {}
    /\ GoodRows(discount_csv) # {}
    /\ ~call.result.ok
    /\ call.result.exc = "ValueError"

---------------------------------------------------------------------------
(* Claims about the item list (C20 under SpecList; C21 under Spec, where   *)
(* the form also holds numbers that overflow).                             *)

\* how often x occurs in seq
CountOf(seq, x) == Cardinality({i \in DOMAIN seq : seq[i] = x})

\* every item of a is in b, field by field, at least as often as in a
AllKept(a, b) == \A i \in DOMAIN a : CountOf(a, a[i]) <= CountOf(b, a[i])

\* C20: a line item is immutable once added: a step of add_item, sort_by,
\* an option toggle, generate_invoice or an edit of the widgets leaves
\* every item of the list in the list with all its fields; items leave
\* only in a step of remove_item or clear_all, and the items remove_item
\* leaves are items that were there, unchanged.
C20_ItemsImmutable ==
    [][\/ AllKept(standard_items, standard_items')
       \/ /\ RemoveItem \/ ClearAll
          /\ AllKept(standard_items', standard_items)]_vars

\* two different items, sorted by total price, the surcharge switched on
\* and an invoice generated from them
C20_Witness ==
    /\ Len(standard_items) = 2
    /\ standard_items[1] # standard_items[2]
    /\ standard_sort_dirs["total_price"]
    /\ include_added_var
    /\ pdf.generator = "generate_pdf_with_added_value"
    /\ counter_file.exists

\* the sum of total_price over the items at the positions of S
RECURSIVE TotalOver(_, _)
TotalOver(items, S) ==
    IF S = {} THEN Zero
    ELSE LET k == CHOOSE i \in S : TRUE
         IN  RAdd(TotalOver(items, S \ {k}), items[k].total_price)

\* the subtotal behind the figures on screen: the total shown, less the
\* surcharge, plus the discount
SubtotalShown(s) ==
    RAdd(RSub(s.total_with_adjustments, s.added), s.discount_amount)

\* C21: after every step of add_item, remove_item, sort_by, clear_all (and
\* of the other handlers) the subtotal behind the figures on screen is the
\* sum of total_price over the items now in the list, and the subtotal of a
\* document generated in the step is that same sum.
C21_SubtotalOfCurrentItems ==
    [][/\ SubtotalShown(shown')
            = TotalOver(standard_items', DOMAIN standard_items')
       /\ (pdf' # pdf /\ pdf'.generator # "failed") =>
            pdf'.total_price_all
                = TotalOver(standard_items', DOMAIN standard_items')]_vars


---------------------------------------------------------------------------
(* Claims about invoice generation (under SpecInvoice).                    *)

\* C22: the invoice counter is monotonic: over any sequence of
\* generate_invoice calls, with numbers assigned automatically or typed,
\* the number in the counter file never decreases.
C22_CounterNeverDecreases ==
    [][counter_file'.counter >= counter_file.counter]_vars

---------------------------------------------------------------------------
(* Claims about deriving a unit price (under Spec; the price_calculator    *)
(* conjuncts speak about SpecLookup's calls)                               *)

\* the form asks add_item to derive the unit price from the total, and the
\* steps before the derivation succeed with a total mass <= 0
DerivesFromNonPositiveMass(e) ==
    /\ e.total_price # "" /\ IsFloatText(e.total_price)
    /\ e.price_per_kg = ""
    /\ ResolvesQuantity(e)
    /\ RLe(add_item_quantity(e, float(e.diameter),
                             add_item_sdr_pn(e).val.sdr).val.total_mass, Zero)

\* C23: deriving a unit price from a total price fails, with no unit price
\* produced, whenever the computed total mass is <= 0: a call of
\* calculate_price_per_kg_from_total raises ValueError, and a call of
\* add_item that derives the unit price shows an error and adds no item;
\* calculate_length_from_mass raises ValueError whenever the mass per
\* meter is <= 0.
C23_NoUnitPriceFromNonPositiveMass ==
    /\ call.fn = "calculate_price_per_kg_from_total" =>
         LET mass == calculate_total_mass(args.length, args.diameter, args.sdr)
         IN  (mass.ok /\ RLe(mass.val, Zero)) =>
                 /\ ~call.result.price.ok
                 /\ call.result.price.exc = "ValueError"
    /\ call.fn = "calculate_length_from_mass" =>
         LET w == load_weight_table(DIN_pivot_csv, args.diameter, args.sdr)
         IN  (w.ok /\ RLe(w.val, Zero)) =>
                 /\ ~call.result.ok
                 /\ call.result.exc = "ValueError"
    /\ (add_outcome.status # "none"
        /\ DerivesFromNonPositiveMass(add_outcome.entries)) =>
           add_outcome.status = "error"

\* the two price_calculator conjuncts of C23 meet their case
C23_LibraryCases ==
    \/ /\ call.fn = "calculate_price_per_kg_from_total"
       /\ args.length = Num(-3) /\ args.diameter = Num(110)
       /\ args.sdr = Num(17)
       /\ ~call.result.price.ok
    \/ /\ call.fn = "calculate_length_from_mass"
       /\ args.diameter = Num(63) /\ args.sdr = Num(17)
       /\ ~call.result.ok

---------------------------------------------------------------------------
(* Claims about the options of a pipe invoice (under SpecInvoice)          *)

DiscountMode(generator) ==
    IF generator \in {"generate_pdf", "generate_pdf_with_added_value"}
    THEN "none"
    ELSE IF generator \in {"generate_pdf_with_custom_discount",
                           "generate_pdf_with_custom_discount_and_added_value"}
    THEN "custom"
    ELSE "tiered"

Surcharged(generator) ==
    generator \in {"generate_pdf_with_added_value",
                   "generate_pdf_with_discount_and_added_value",
                   "generate_pdf_with_custom_discount_and_added_value"}

\* a step of generate_invoice that produced a document
InvoiceProduced == pdf' # pdf /\ pdf'.generator # "failed"

\* C24: every pipe invoice that generate_invoice produces uses exactly one
\* discount mode: none when the discount option is off, the custom
\* percentage when the option is on and the custom field is not empty, the
\* tiered schedule when it is on and the field is empty; and, whatever the
\* mode, the 10% surcharge on the amount after discount is applied exactly
\* when the added-value option is on.
C24_OneDiscountMode ==
    [][InvoiceProduced =>
         LET subtotal == pdf'.total_price_all
             net == RSub(subtotal, pdf'.discount_amount)
         IN  /\ DiscountMode(pdf'.generator) =
                    IF ~include_discount_var THEN "none"
                    ELSE IF custom_discount_var # "" THEN "custom"
                    ELSE "tiered"
             /\ pdf'.discount_amount =
                    IF ~include_discount_var THEN Zero
                    ELSE IF custom_discount_var # ""
                    THEN custom_discount_amount(subtotal,
                                                float(custom_discount_var))
                    ELSE tiered_discount(discount_csv, subtotal)
             /\ Surcharged(pdf'.generator) = include_added_var
             /\ pdf'.added_value =
                    IF include_added_var THEN RMul(net, AddedValueRate)
                    ELSE Zero
             /\ pdf'.final_total = RAdd(net, pdf'.added_value)]_vars

C24_Witness ==
    /\ include_discount_var /\ include_added_var
    /\ custom_discount_var = "2.5"
    /\ pdf.generator = "generate_pdf_with_custom_discount_and_added_value"
    /\ pdf.discount = float("2.5")
    /\ pdf.discount_amount # Zero
    /\ pdf.added_value = RMul(RSub(pdf.total_price_all, pdf.discount_amount),
                              AddedValueRate)

---------------------------------------------------------------------------
(* Claims about the copies of the tiered computation (under SpecLookup)    *)

\* C25: on the same schedule file and the same subtotal every copy of the
\* tiered computation returns the same amount: generate_pdf_with_discount
\* of create_invoice_EN, generate_pdf_with_discount of create_pdf, and the
\* generate_pdf_with_discount_and_added_value of both modules.
C25_TieredCopiesAgree ==
    call.fn = "tiered_discount_copies" =>
        /\ call.result.EN_with_discount.ok
        /\ call.result.EN_with_discount.val = call.result.create_pdf
        /\ call.result.EN_with_discount_and_added_value =
               call.result.create_pdf

\* the copies other than create_invoice_EN.generate_pdf_with_discount agree
C25_OtherCopiesAgree ==
    call.fn = "tiered_discount_copies" =>
        call.result.EN_with_discount_and_added_value = call.result.create_pdf

---------------------------------------------------------------------------
(* Claims about the rows on screen (under Spec)                            *)

\* C27: after any sequence of add_item, remove_item (of one or several
\* selected rows), sort_by and clear_all the tree has exactly as many rows
\* as standard_items has items, the k-th row shows the k-th item, and the
\* rows are numbered 1..n in order.
C27_RowsInStep ==
    /\ Len(standard_tree) = Len(standard_items)
    /\ \A k \in 1..Len(standard_tree) :
           /\ standard_tree[k].no = k
           /\ standard_tree[k] = tree_row(k, standard_items[k])


---------------------------------------------------------------------------
(* Claims about a failing add_item (under Spec)                            *)

\* C28: add_item is all-or-nothing: a call that ends in the error box
\* leaves the item list, the displayed rows and the subtotal exactly as
\* they were, and the list grows only by an item whose every attribute was
\* resolved from the form, in a call that reports it as added.
C28_AddItemAllOrNothing ==
    [][/\ (add_outcome'.status = "error" =>
              /\ standard_items' = standard_items
              /\ standard_tree' = standard_tree
              /\ shown' = shown)
       /\ (standard_items' # standard_items =>
              /\ add_outcome'.status = "added"
              /\ add_item(standard_entries).ok
              /\ standard_items' =
                     Append(standard_items, add_item(standard_entries).val))
      ]_vars

\* the part of C28 about the steps that resolve the attributes: a call in
\* which one of them fails changes nothing
C28_ResolutionFailureChangesNothing ==
    [][(add_outcome'.status = "error" /\ ~add_item(standard_entries).ok) =>
           /\ standard_items' = standard_items
           /\ standard_tree' = standard_tree
           /\ shown' = shown]_vars

---------------------------------------------------------------------------
(* Claims about the counter file (under SpecInvoice)                       *)

\* the checks of generate_invoice before it touches the counter
ChecksPass ==
    /\ standard_items # <<>>
    /\ customer_entry # ""
    /\ (invoice_entry = "" \/ IsIntText(invoice_entry))

---------------------------------------------------------------------------
(* Claims about tables with a gap in the header (under SpecLookup)         *)

\* C30: the lookups address a column by its header also in a table whose
\* header has a blank cell between two SDR values or whose data row is
\* longer than the header: get_sdr_for returns the header SDR of the
\* column in which the matching PN cell sits, get_pn_for and
\* load_weight_table return the cell in the column whose header is the
\* requested SDR.
C30_LookupsByHeader ==
    call.fn = "gapped_tables" =>
        LET grows == grade_rows(gapped_series_csv, args.pipe_grade)
            drows == diameter_rows(gapped_DIN_csv, Num(110))
        IN  /\ (grows # {} /\ IsFloatText(args.pn)) =>
                  LET row == gapped_series_csv[FirstIn(grows)]
                      at == {j \in 2..Len(row) :
                                /\ IsFloatText(row[j])
                                /\ float(row[j]) = float(args.pn)}
                  IN  (at # {} /\ IsFloatText(CellAt(gapped_series_csv[1],
                                                     FirstIn(at)))) =>
                          call.result.sdr =
                              Ok(float(gapped_series_csv[1][FirstIn(at)]))
            /\ (grows # {} /\ ColumnsOf(gapped_series_csv, args.sdr) # {}) =>
                  LET cell == CellAt(gapped_series_csv[FirstIn(grows)],
                                  FirstIn(ColumnsOf(gapped_series_csv,
                                                    args.sdr)))
                  IN  IsFloatText(cell) => call.result.pn = Ok(float(cell))
            /\ (drows # {} /\ ColumnsOf(gapped_DIN_csv, args.sdr) # {}) =>
                  LET cell == CellAt(gapped_DIN_csv[FirstIn(drows)],
                                  FirstIn(ColumnsOf(gapped_DIN_csv, args.sdr)))
                  IN  IsFloatText(cell) =>
                          call.result.weight = Ok(float(cell))

\* in the columns before the gap the lookups do read by header
C30_BeforeTheGap ==
    (call.fn = "gapped_tables" /\ args.sdr = Num(17)
     /\ StripUpper(args.pipe_grade) = "PE100") =>
        /\ call.result.pn = Ok(Num(10))
        /\ call.result.weight = Ok(float("1.75"))
        /\ args.pn = "10" => call.result.sdr = Ok(Num(17))

====
